---- MODULE Spec2Model ----
(***************************************************************************)
(* A model of the file_organizer package: the directory tree as a map from *)
(* absolute paths to entries, the pure helpers of utils.py and config.py   *)
(* as operators, and one action per orchestrator call of operations.py     *)
(* and per CLI run of cli.py.                                              *)
(*                                                                         *)
(* A Python str is a sequence of one-character strings, a pathlib.Path is  *)
(* the sequence of its components, a timestamp is a number of seconds      *)
(* counted from 2024-01-01 00:00:00 local time (negative before it).       *)
(***************************************************************************)
EXTENDS Integers, Sequences, FiniteSets, TLC

VARIABLES
  fs,      \* the directory tree: absolute path -> entry
  now,     \* the wall clock, datetime.now()
  pre,     \* the tree as it was when the last call started
  call,    \* the last call: operation, arguments, what the environment did
  result,  \* what the last call returned
  prev,    \* what the call before the last one returned
  calls    \* number of calls made so far

vars == <<fs, now, pre, call, result, prev, calls>>

(***************************************************************************)
(* Bounds of the model.                                                    *)
(***************************************************************************)
MaxSeeds == 3
MaxCalls == 1
MaxFailures == 1
MaxRuns == 2
MaxTicks == 1

(***************************************************************************)
(* Python str and pathlib.PurePath primitives.                             *)
(***************************************************************************)
Max(S) == CHOOSE x \in S : \A y \in S : y <= x
Min(S) == CHOOSE x \in S : \A y \in S : x <= y

UpperToLower ==
  [A |-> "a", B |-> "b", C |-> "c", D |-> "d", E |-> "e", F |-> "f", G |-> "g", H |-> "h", I |-> "i", J |-> "j", K |-> "k", L |-> "l", M |-> "m", N |-> "n", O |-> "o", P |-> "p", Q |-> "q", R |-> "r", S |-> "s", T |-> "t", U |-> "u", V |-> "v", W |-> "w", X |-> "x", Y |-> "y", Z |-> "z"]

str_lower(s) ==
  [i \in 1..Len(s) |-> IF s[i] \in DOMAIN UpperToLower THEN UpperToLower[s[i]] ELSE s[i]]

startswith(s, prefix) ==
  Len(s) >= Len(prefix) /\ SubSeq(s, 1, Len(prefix)) = prefix

\* str.rfind('.') + 1: the 1-based index of the last dot, 0 when there is none
rfind_dot(s) ==
  LET I == {i \in 1..Len(s) : s[i] = "."} IN IF I = {} THEN 0 ELSE Max(I)

\* PurePath.suffix: name[i:] when 0 < i < len(name) - 1 (0-based i), else ''
path_suffix(p) ==
  LET nm == p[Len(p)]
      j == rfind_dot(nm)
  IN IF 1 < j /\ j < Len(nm) THEN SubSeq(nm, j, Len(nm)) ELSE <<>>

\* PurePath.stem: name[:i] under the same condition, else the whole name
path_stem(p) ==
  LET nm == p[Len(p)]
      j == rfind_dot(nm)
  IN IF 1 < j /\ j < Len(nm) THEN SubSeq(nm, 1, j - 1) ELSE nm

path_name(p) == p[Len(p)]

path_parent(p) == SubSeq(p, 1, Len(p) - 1)

is_prefix(a, b) == Len(a) <= Len(b) /\ SubSeq(b, 1, Len(a)) = a

\* PurePath.relative_to(base); the caller checks is_prefix (else ValueError)
relative_to(p, base) == SubSeq(p, Len(base) + 1, Len(p))

(***************************************************************************)
(* config.py: DEFAULT_CONFIG.  The two byte counts are scaled down through *)
(* the injectable Config (as tests/conftest.py does) so that files of a    *)
(* few bytes are oversized and are hashed in more than one chunk.          *)
(***************************************************************************)
archive_age_days == 30

archive_folder == <<"_","A","r","c","h","i","v","e">>

auto_delete_extensions == {<<".","i","c","a">>}

auto_delete_age_days == 1

large_file_threshold_bytes == 2

large_files_folder == <<"_","L","a","r","g","e","F","i","l","e","s">>

recents_age_hours == 24

recents_folder == <<"_","R","e","c","e","n","t","s">>

duplicates_folder == <<"_","D","u","p","l","i","c","a","t","e","s">>

hash_buffer_size == 1

categories ==
  << [label |-> <<"I","m","a","g","e","s">>,
      extensions |-> {<<".","j","p","g">>, <<".","j","p","e","g">>, <<".","p","n","g">>, <<".","g","i","f">>, <<".","b","m","p">>, <<".","s","v","g">>, <<".","w","e","b","p">>, <<".","i","c","o">>, <<".","t","i","f","f">>, <<".","h","e","i","c">>}],
     [label |-> <<"D","o","c","u","m","e","n","t","s">>,
      extensions |-> {<<".","p","d","f">>, <<".","d","o","c">>, <<".","d","o","c","x">>, <<".","t","x","t">>, <<".","r","t","f">>, <<".","o","d","t">>, <<".","x","l","s">>, <<".","x","l","s","x">>, <<".","p","p","t">>, <<".","p","p","t","x">>, <<".","c","s","v">>}],
     [label |-> <<"A","u","d","i","o">>,
      extensions |-> {<<".","m","p","3">>, <<".","w","a","v">>, <<".","f","l","a","c">>, <<".","a","a","c">>, <<".","o","g","g">>, <<".","w","m","a">>, <<".","m","4","a">>}],
     [label |-> <<"V","i","d","e","o">>,
      extensions |-> {<<".","m","p","4">>, <<".","a","v","i">>, <<".","m","k","v">>, <<".","m","o","v">>, <<".","w","m","v">>, <<".","f","l","v">>, <<".","w","e","b","m">>, <<".","m","4","v">>}],
     [label |-> <<"A","r","c","h","i","v","e","s">>,
      extensions |-> {<<".","z","i","p">>, <<".","r","a","r">>, <<".","7","z">>, <<".","t","a","r">>, <<".","g","z">>, <<".","b","z","2">>, <<".","x","z">>}],
     [label |-> <<"C","o","d","e">>,
      extensions |-> {<<".","p","y">>, <<".","j","s">>, <<".","t","s">>, <<".","h","t","m","l">>, <<".","c","s","s">>, <<".","j","s","o","n">>, <<".","x","m","l">>, <<".","y","m","l">>, <<".","y","a","m","l">>, <<".","m","d">>, <<".","s","h">>, <<".","c">>, <<".","c","p","p">>, <<".","h">>, <<".","j","a","v","a">>, <<".","g","o">>, <<".","r","s">>}],
     [label |-> <<"E","x","e","c","u","t","a","b","l","e","s">>,
      extensions |-> {<<".","e","x","e">>, <<".","m","s","i">>, <<".","d","m","g">>, <<".","a","p","p">>, <<".","d","e","b">>, <<".","r","p","m">>}],
     [label |-> <<"F","o","n","t","s">>,
      extensions |-> {<<".","t","t","f">>, <<".","o","t","f">>, <<".","w","o","f","f">>, <<".","w","o","f","f","2">>}] >>

default_category == <<"O","t","h","e","r">>

special_folder_prefix == <<"_">>

\* get_category that compares the extension as it is spelled
Config_get_category_as_spelled(extension) ==
  LET M == {i \in 1..Len(categories) : extension \in categories[i].extensions}
  IN IF M = {} THEN default_category ELSE categories[Min(M)].label

Config_get_category(extension) ==
  LET ext_lower == str_lower(extension)
      M == {i \in 1..Len(categories) : ext_lower \in categories[i].extensions}
  IN IF M = {} THEN default_category ELSE categories[Min(M)].label

is_special_folder(nm) == startswith(nm, special_folder_prefix)

\* is_hidden that looks for another first character
is_hidden_by_tilde(nm) == startswith(nm, <<"~">>)

is_hidden(nm) == startswith(nm, <<".">>)

(***************************************************************************)
(* The directory tree.  `directory` is the path every call is given; its   *)
(* own components are a hidden one and a special one.  It and its          *)
(* ancestors always exist; every other entry is a key of the tree.  A file *)
(* carries the path it had in the initial state as its identity.           *)
(***************************************************************************)
directory == << <<".","v">>, <<"_","r">> >>

DirEntry == [kind |-> "dir", id |-> <<>>, content |-> <<>>, mtime |-> 0]

FileEntry(id, content, mtime) ==
  [kind |-> "file", id |-> id, content |-> content, mtime |-> mtime]

path_exists(t, p) == p \in DOMAIN t \/ is_prefix(p, directory)

is_dir(t, p) == is_prefix(p, directory) \/ (p \in DOMAIN t /\ t[p].kind = "dir")

is_file(t, p) == p \in DOMAIN t /\ t[p].kind = "file"

\* Path.iterdir(): the direct children, as a set (the order comes from `rank`)
iterdir(t, d) == {p \in DOMAIN t : path_parent(p) = d}

\* Path.rglob("*"): every entry below d, hidden ones included
rglob(t, d) == {p \in DOMAIN t : is_prefix(d, p) /\ p # d}

Files(t) == {p \in DOMAIN t : t[p].kind = "file"}

Ids(t) == {t[p].id : p \in Files(t)}

\* The order in which the operating system lists a set of files: a directory
\* listing has no defined order, so each call draws a ranking of the files.
Position(seq, x) == CHOOSE i \in 1..Len(seq) : seq[i] = x

Listing(t, S, rank) ==
  LET pos(p) == Position(rank, t[p].id)
  IN [i \in 1..Cardinality(S) |->
        CHOOSE p \in S : Cardinality({q \in S : pos(q) < pos(p)}) = i - 1]

Rankings(S) ==
  {r \in [1..Cardinality(S) -> S] : \A x \in S : \E i \in 1..Cardinality(S) : r[i] = x}

\* one listing order and its reverse: between them every two files come in
\* both orders
OppositeRankings(S) ==
  LET r == CHOOSE x \in Rankings(S) : TRUE
  IN {r, [i \in 1..Len(r) |-> r[Len(r) + 1 - i]]}

Ok(t) == [err |-> "", fs |-> t]

Raise(e, t) == [err |-> e, fs |-> t]

\* Path.mkdir(parents=parents, exist_ok=True)
RECURSIVE mkdir(_, _, _)
mkdir(t, p, parents) ==
  IF path_exists(t, p)
    THEN IF is_dir(t, p) THEN Ok(t) ELSE Raise("FileExistsError", t)
  ELSE IF ~path_exists(t, path_parent(p))
    THEN IF parents
           THEN LET r == mkdir(t, path_parent(p), TRUE)
                IN IF r.err # "" THEN r ELSE mkdir(r.fs, p, FALSE)
           ELSE Raise("FileNotFoundError", t)
  ELSE IF ~is_dir(t, path_parent(p))
    THEN Raise("NotADirectoryError", t)
  ELSE Ok((p :> DirEntry) @@ t)

\* a move that leaves the source where it was
shutil_move_keeping_source(t, src, dst) ==
  LET real_dst == IF is_dir(t, dst) THEN Append(dst, path_name(src)) ELSE dst
  IN IF ~path_exists(t, src) THEN Raise("FileNotFoundError", t)
     ELSE IF is_dir(t, dst) /\ path_exists(t, real_dst) THEN Raise("shutil.Error", t)
     ELSE IF ~is_dir(t, path_parent(real_dst)) THEN Raise("FileNotFoundError", t)
     ELSE Ok([q \in DOMAIN t \cup {real_dst} |->
                IF q = real_dst THEN t[src] ELSE t[q]])

\* shutil.move(src, dst) of a regular file: into dst when dst is a directory
\* (an error if the name is taken there), else os.rename, which replaces an
\* existing regular file at dst.
shutil_move(t, src, dst) ==
  LET real_dst == IF is_dir(t, dst) THEN Append(dst, path_name(src)) ELSE dst
  IN IF ~path_exists(t, src) THEN Raise("FileNotFoundError", t)
     ELSE IF is_dir(t, dst) /\ path_exists(t, real_dst) THEN Raise("shutil.Error", t)
     ELSE IF ~is_dir(t, path_parent(real_dst)) THEN Raise("FileNotFoundError", t)
     ELSE Ok([q \in (DOMAIN t \ {src}) \cup {real_dst} |->
                IF q = real_dst THEN t[src] ELSE t[q]])

\* Path.unlink()
unlink(t, p) ==
  IF ~is_file(t, p) THEN Raise("FileNotFoundError", t)
  ELSE Ok([q \in DOMAIN t \ {p} |-> t[q]])

(***************************************************************************)
(* utils.py                                                                *)
(***************************************************************************)
SecondsPerDay == 24 * 3600

Digit(d) == <<"0","1","2","3","4","5","6","7","8","9">>[d + 1]

TwoDigits(n) == <<Digit((n \div 10) % 10), Digit(n % 10)>>

\* datetime.strftime("%Y%m%d_%H%M%S") for a clock within January 2024
strftime(clock) ==
  LET day == clock \div SecondsPerDay + 1
      sec == clock % SecondsPerDay
  IN <<"2","0","2","4","0","1">> \o TwoDigits(day) \o <<"_">>
       \o TwoDigits(sec \div 3600) \o TwoDigits((sec \div 60) % 60) \o TwoDigits(sec % 60)

get_file_mtime(t, file_path) == t[file_path].mtime

\* an age in days rounded toward zero
get_file_age_days_truncating(t, file_path, clock) ==
  LET seconds == clock - get_file_mtime(t, file_path)
  IN IF seconds >= 0 THEN seconds \div SecondsPerDay ELSE 0 - ((0 - seconds) \div SecondsPerDay)

\* timedelta.days: the floor of the duration in days
get_file_age_days(t, file_path, clock) ==
  (clock - get_file_mtime(t, file_path)) \div SecondsPerDay

\* total_seconds() / 3600, kept as the fraction num/den
get_file_age_hours(t, file_path, clock) ==
  [num |-> clock - get_file_mtime(t, file_path), den |-> 3600]

\* a size that counts one byte too many
get_file_size_bytes_plus_one(t, file_path) == Len(t[file_path].content) + 1

get_file_size_bytes(t, file_path) == Len(t[file_path].content)

\* "<int> B" below 1024 bytes, else two decimals of the first unit under 1024;
\* text is the printed number (in hundredths for the units above B)
RECURSIVE format_file_size_loop(_, _, _)
format_file_size_loop(size_bytes, divisor, i) ==
  LET unit == <<"B", "KB", "MB", "GB", "TB">>
  IN IF i > 5 THEN [text |-> (size_bytes * 100 + divisor \div 2) \div divisor, unit |-> "PB"]
     ELSE IF size_bytes < 1024 * divisor
       THEN IF i = 1 THEN [text |-> size_bytes, unit |-> "B"]
            ELSE [text |-> (size_bytes * 100 + divisor \div 2) \div divisor, unit |-> unit[i]]
     ELSE format_file_size_loop(size_bytes, divisor * 1024, i + 1)

format_file_size(size_bytes) == format_file_size_loop(size_bytes, 1, 1)

\* is_old_file with the age test written >= instead of >
is_old_file_at_threshold(t, file_path, clock) ==
  get_file_age_days(t, file_path, clock) >= archive_age_days

is_old_file(t, file_path, clock) ==
  get_file_age_days(t, file_path, clock) > archive_age_days

\* is_recent_file with the age test written <= instead of <
is_recent_file_at_threshold(t, file_path, clock) ==
  LET age == get_file_age_hours(t, file_path, clock)
  IN age.num <= recents_age_hours * age.den

is_recent_file(t, file_path, clock) ==
  LET age == get_file_age_hours(t, file_path, clock)
  IN age.num < recents_age_hours * age.den

is_large_file(t, file_path) ==
  get_file_size_bytes(t, file_path) > large_file_threshold_bytes

\* is_auto_deletable with the age test written >= instead of >
is_auto_deletable_at_threshold(t, file_path, clock) ==
  LET ext == str_lower(path_suffix(file_path))
  IN IF ext \notin auto_delete_extensions THEN FALSE
     ELSE get_file_age_days(t, file_path, clock) >= auto_delete_age_days

is_auto_deletable(t, file_path, clock) ==
  LET ext == str_lower(path_suffix(file_path))
  IN IF ext \notin auto_delete_extensions THEN FALSE
     ELSE get_file_age_days(t, file_path, clock) > auto_delete_age_days

\* The md5 hasher is modelled by the bytes fed to it so far; the digest of a
\* byte string is the byte string (md5 taken as free of collisions).
RECURSIVE hash_loop(_, _, _, _)
hash_loop(content, offset, buffer_size, hasher) ==
  LET chunk == SubSeq(content, offset + 1, Min({offset + buffer_size, Len(content)}))
  IN IF chunk = <<>> THEN hasher
     ELSE hash_loop(content, offset + Len(chunk), buffer_size, hasher \o chunk)

\* compute_file_hash that feeds the hasher the first chunk only
compute_file_hash_first_chunk(t, file_path, buffer_size) ==
  SubSeq(t[file_path].content, 1, Min({buffer_size, Len(t[file_path].content)}))

compute_file_hash(t, file_path, buffer_size) ==
  hash_loop(t[file_path].content, 0, buffer_size, <<>>)

\* generate_unique_filename without the existence test
generate_unique_filename_unchecked(t, clock, destination) == destination

generate_unique_filename(t, clock, destination) ==
  IF ~path_exists(t, destination) THEN destination
  ELSE LET timestamp == strftime(clock)
           new_name == path_stem(destination) \o <<"_">> \o timestamp \o path_suffix(destination)
       IN Append(path_parent(destination), new_name)

get_category(file_path) == Config_get_category(path_suffix(file_path))

\* should_skip_for_duplicates that tests every component of the absolute path
should_skip_for_duplicates_absolute_parts(t, file_path, base_dir) ==
  IF get_file_size_bytes(t, file_path) = 0 THEN TRUE
  ELSE \E i \in 1..Len(file_path) :
         is_special_folder(file_path[i]) \/ is_hidden(file_path[i])

should_skip_for_duplicates(t, file_path, base_dir) ==
  IF get_file_size_bytes(t, file_path) = 0 THEN TRUE
  ELSE IF is_prefix(base_dir, file_path)
            /\ \E i \in 1..Len(relative_to(file_path, base_dir)) :
                 \/ is_special_folder(relative_to(file_path, base_dir)[i])
                 \/ is_hidden(relative_to(file_path, base_dir)[i])
    THEN TRUE
  ELSE is_hidden(path_name(file_path))

(***************************************************************************)
(* operations.py                                                           *)
(***************************************************************************)
OperationResult ==
  [success_count |-> 0, skip_count |-> 0, error_count |-> 0,
   actions |-> <<>>, errors |-> <<>>, space_recoverable |-> 0]

\* The two statements every orchestrator runs inside its try block to move a
\* file: generate_unique_filename, then shutil.move.  `fails` holds the files
\* the operating system refuses to move or delete during this call.
move_step(t, clock, src, destination, fails) ==
  IF t[src].id \in fails THEN Raise("PermissionError", t)
  ELSE shutil_move(t, src, generate_unique_filename(t, clock, destination))

\* an except branch that takes the action line back
record_error_dropping_action(res, file_path, err) ==
  [res EXCEPT !.errors = Append(@, [name |-> path_name(file_path), err |-> err]),
              !.error_count = @ + 1,
              !.actions = SubSeq(@, 1, Len(@) - 1)]

\* The except branch: one entry in errors, error_count + 1
record_error(res, file_path, err) ==
  [res EXCEPT !.errors = Append(@, [name |-> path_name(file_path), err |-> err]),
              !.error_count = @ + 1]

\* a success branch that counts the file twice
record_success_counting_twice(res) == [res EXCEPT !.success_count = @ + 2]

record_success(res) == [res EXCEPT !.success_count = @ + 1]

\* organize_decision that tests the size before the age
organize_decision_size_first(t, file_path, clock, use_recents) ==
  IF is_large_file(t, file_path)
    THEN LET size_str == format_file_size(get_file_size_bytes(t, file_path))
         IN [category |-> large_files_folder,
             action |-> [name |-> path_name(file_path), kind |-> "size",
                         num |-> size_str.text, unit |-> size_str.unit,
                         dest |-> <<large_files_folder>>]]
  ELSE IF use_recents /\ is_recent_file(t, file_path, clock)
    THEN LET age_hours == get_file_age_hours(t, file_path, clock)
         IN [category |-> recents_folder,
             action |-> [name |-> path_name(file_path), kind |-> "hours old",
                         num |-> (age_hours.num * 10 + age_hours.den \div 2) \div age_hours.den,
                         unit |-> "h", dest |-> <<recents_folder>>]]
  ELSE LET category == get_category(file_path)
       IN [category |-> category,
           action |-> [name |-> path_name(file_path), kind |-> "category",
                       num |-> 0, unit |-> "", dest |-> <<category>>]]

\* Lines 98-109: the destination folder of one file and the action line
organize_decision(t, file_path, clock, use_recents) ==
  IF use_recents /\ is_recent_file(t, file_path, clock)
    THEN LET age_hours == get_file_age_hours(t, file_path, clock)
         IN [category |-> recents_folder,
             action |-> [name |-> path_name(file_path), kind |-> "hours old",
                         \* {age_hours:.1f}, in tenths of an hour
                         num |-> (age_hours.num * 10 + age_hours.den \div 2) \div age_hours.den,
                         unit |-> "h", dest |-> <<recents_folder>>]]
  ELSE IF is_large_file(t, file_path)
    THEN LET size_str == format_file_size(get_file_size_bytes(t, file_path))
         IN [category |-> large_files_folder,
             action |-> [name |-> path_name(file_path), kind |-> "size",
                         num |-> size_str.text, unit |-> size_str.unit,
                         dest |-> <<large_files_folder>>]]
  ELSE LET category == get_category(file_path)
       IN [category |-> category,
           action |-> [name |-> path_name(file_path), kind |-> "category",
                       num |-> 0, unit |-> "", dest |-> <<category>>]]

\* Path.stat() on a path that is no longer there: FileNotFoundError leaves the
\* loop and the function
stat_raises(st) == [st EXCEPT !.raised = "FileNotFoundError"]

\* the tree once another process has removed the paths in `gone`
Without(t, gone) == [p \in DOMAIN t \ gone |-> t[p]]

\* the state a loop starts from
Started(t) == [raised |-> "", fs |-> t, result |-> OperationResult]

RECURSIVE organize_loop(_, _, _, _, _, _, _, _)
organize_loop(st, dir, files, i, clock, dry_run, use_recents, fails) ==
  IF i > Len(files) \/ st.raised # "" THEN st
  ELSE
    LET file_path == files[i]
        next(s) == organize_loop(s, dir, files, i + 1, clock, dry_run, use_recents, fails)
    IN IF is_hidden(path_name(file_path))
         THEN next([st EXCEPT !.result.skip_count = @ + 1])
       \* is_recent_file / is_large_file call stat() outside the try block
       ELSE IF ~is_file(st.fs, file_path) THEN stat_raises(st)
       ELSE
         LET d == organize_decision(st.fs, file_path, clock, use_recents)
             category_dir == Append(dir, d.category)
             destination == Append(category_dir, path_name(file_path))
             res == [st.result EXCEPT !.actions = Append(@, d.action)]
         IN IF dry_run THEN next([st EXCEPT !.result = res])
            ELSE
              LET mk == mkdir(st.fs, category_dir, FALSE)
                  mv == IF mk.err # "" THEN mk
                        ELSE move_step(mk.fs, clock, file_path, destination, fails)
              IN IF mv.err = ""
                   THEN next([st EXCEPT !.fs = mv.fs, !.result = record_success(res)])
                   ELSE next([st EXCEPT !.fs = mv.fs,
                                        !.result = record_error(res, file_path, mv.err)])

\* organize_files while another process removes the paths in `gone` after the
\* directory has been listed (line 82) and before the loop (line 92) starts
organize_files_racing(t, gone, dir, clock, dry_run, use_recents, rank, fails) ==
  IF ~is_dir(t, dir) THEN [raised |-> "ValueError", fs |-> t, result |-> OperationResult]
  ELSE
    LET files == Listing(t, {f \in iterdir(t, dir) : is_file(t, f)}, rank)
        st == organize_loop(Started(Without(t, gone)), dir, files, 1,
                            clock, dry_run, use_recents, fails)
    IN IF files = <<>> THEN [raised |-> "", fs |-> t, result |-> OperationResult]
       ELSE [raised |-> st.raised, fs |-> st.fs, result |-> st.result]

\* organize_files that does not pass dry_run on to its loop
organize_files_ignoring_dry_run(t, dir, clock, dry_run, use_recents, rank, fails) ==
  organize_files_racing(t, {}, dir, clock, FALSE, use_recents, rank, fails)

organize_files(t, dir, clock, dry_run, use_recents, rank, fails) ==
  organize_files_racing(t, {}, dir, clock, dry_run, use_recents, rank, fails)

RECURSIVE archive_loop(_, _, _, _, _, _, _)
archive_loop(st, dir, old_files, i, clock, dry_run, fails) ==
  IF i > Len(old_files) \/ st.raised # "" THEN st
  \* get_file_age_days calls stat() outside the try block
  ELSE IF ~is_file(st.fs, old_files[i]) THEN stat_raises(st)
  ELSE
    LET file_path == old_files[i]
        next(s) == archive_loop(s, dir, old_files, i + 1, clock, dry_run, fails)
        archive_dir == Append(dir, archive_folder)
        category == get_category(file_path)
        age_days == get_file_age_days(st.fs, file_path, clock)
        dest_dir == Append(archive_dir, category)
        destination == Append(dest_dir, path_name(file_path))
        action == [name |-> path_name(file_path), kind |-> "days old", num |-> age_days,
                   unit |-> "", dest |-> <<archive_folder, category>>]
        res == [st.result EXCEPT !.actions = Append(@, action)]
    IN IF dry_run THEN next([st EXCEPT !.result = res])
       ELSE
         LET mk == mkdir(st.fs, dest_dir, TRUE)
             mv == IF mk.err # "" THEN mk
                   ELSE move_step(mk.fs, clock, file_path, destination, fails)
         IN IF mv.err = ""
              THEN next([st EXCEPT !.fs = mv.fs, !.result = record_success(res)])
              ELSE next([st EXCEPT !.fs = mv.fs, !.result = record_error(res, file_path, mv.err)])

\* archive_old_files while another process removes the paths in `gone` after
\* old_files has been built (line 173) and before the loop (line 185) starts
archive_old_files_racing(t, gone, dir, clock, dry_run, rank, fails) ==
  IF ~is_dir(t, dir) THEN [raised |-> "ValueError", fs |-> t, result |-> OperationResult]
  ELSE
    LET files == {f \in iterdir(t, dir) : is_file(t, f)}
        old_files == Listing(t, {f \in files : ~is_hidden(path_name(f)) /\ is_old_file(t, f, clock)},
                             rank)
        st == archive_loop(Started(Without(t, gone)), dir, old_files, 1, clock, dry_run, fails)
    IN IF old_files = <<>> THEN [raised |-> "", fs |-> t, result |-> OperationResult]
       ELSE [raised |-> st.raised, fs |-> st.fs, result |-> st.result]

archive_old_files(t, dir, clock, dry_run, rank, fails) ==
  archive_old_files_racing(t, {}, dir, clock, dry_run, rank, fails)

RECURSIVE cleanup_loop(_, _, _, _, _, _)
cleanup_loop(st, files_to_delete, i, clock, dry_run, fails) ==
  IF i > Len(files_to_delete) \/ st.raised # "" THEN st
  \* get_file_age_days calls stat() outside the try block
  ELSE IF ~is_file(st.fs, files_to_delete[i]) THEN stat_raises(st)
  ELSE
    LET file_path == files_to_delete[i]
        next(s) == cleanup_loop(s, files_to_delete, i + 1, clock, dry_run, fails)
        age_days == get_file_age_days(st.fs, file_path, clock)
        action == [name |-> path_name(file_path), kind |-> "days old", num |-> age_days,
                   unit |-> "", dest |-> <<>>]
        res == [st.result EXCEPT !.actions = Append(@, action)]
    IN IF dry_run THEN next([st EXCEPT !.result = res])
       ELSE
         LET rm == IF st.fs[file_path].id \in fails THEN Raise("PermissionError", st.fs)
                   ELSE unlink(st.fs, file_path)
         IN IF rm.err = ""
              THEN next([st EXCEPT !.fs = rm.fs, !.result = record_success(res)])
              ELSE next([st EXCEPT !.fs = rm.fs, !.result = record_error(res, file_path, rm.err)])

\* cleanup_temp_files while another process removes the paths in `gone` after
\* files_to_delete has been built (line 251) and before the loop (line 260) starts
cleanup_temp_files_racing(t, gone, dir, clock, dry_run, rank, fails) ==
  IF ~is_dir(t, dir) THEN [raised |-> "", fs |-> t, result |-> OperationResult]
  ELSE
    LET files_to_delete ==
          Listing(t, {f \in iterdir(t, dir) : is_file(t, f) /\ is_auto_deletable(t, f, clock)}, rank)
        st == cleanup_loop(Started(Without(t, gone)), files_to_delete, 1, clock, dry_run, fails)
    IN IF files_to_delete = <<>> THEN [raised |-> "", fs |-> t, result |-> OperationResult]
       ELSE [raised |-> st.raised, fs |-> st.fs, result |-> st.result]

cleanup_temp_files(t, dir, clock, dry_run, rank, fails) ==
  cleanup_temp_files_racing(t, {}, dir, clock, dry_run, rank, fails)

\* a scan that gives up at the first file it cannot read
RECURSIVE hash_files_loop_giving_up(_, _, _, _, _)
hash_files_loop_giving_up(acc, t, files, i, unreadable) ==
  IF i > Len(files) THEN acc
  ELSE
    LET file_path == files[i]
        next(a) == hash_files_loop_giving_up(a, t, files, i + 1, unreadable)
    IN IF t[file_path].id \in unreadable
         THEN [acc EXCEPT !.warnings = Append(@, file_path)]
       ELSE
         LET file_hash == compute_file_hash(t, file_path, hash_buffer_size)
             K == {k \in 1..Len(acc.hash_to_files) : acc.hash_to_files[k].hash = file_hash}
         IN IF K = {}
              THEN next([acc EXCEPT !.hash_to_files =
                           Append(@, [hash |-> file_hash, paths |-> <<file_path>>])])
              ELSE next([acc EXCEPT !.hash_to_files[Min(K)].paths = Append(@, file_path)])

\* hash_to_files: the dict as the sequence of its items in insertion order;
\* warnings: the files a "[WARNING] Could not read" line was printed for
RECURSIVE hash_files_loop(_, _, _, _, _)
hash_files_loop(acc, t, files, i, unreadable) ==
  IF i > Len(files) THEN acc
  ELSE
    LET file_path == files[i]
        next(a) == hash_files_loop(a, t, files, i + 1, unreadable)
    IN IF t[file_path].id \in unreadable
         THEN next([acc EXCEPT !.warnings = Append(@, file_path)])
       ELSE
         LET file_hash == compute_file_hash(t, file_path, hash_buffer_size)
             K == {k \in 1..Len(acc.hash_to_files) : acc.hash_to_files[k].hash = file_hash}
         IN IF K = {}
              THEN next([acc EXCEPT !.hash_to_files =
                           Append(@, [hash |-> file_hash, paths |-> <<file_path>>])])
              ELSE next([acc EXCEPT !.hash_to_files[Min(K)].paths = Append(@, file_path)])

HasSeveralPaths(item) == Len(item.paths) > 1

\* `unreadable` holds the files whose bytes cannot be read during this call
find_duplicates(t, dir, recursive, rank, unreadable) ==
  LET listed == IF recursive THEN {f \in rglob(t, dir) : is_file(t, f)}
                ELSE {f \in iterdir(t, dir) : is_file(t, f)}
      files == Listing(t, {f \in listed : ~should_skip_for_duplicates(t, f, dir)}, rank)
      acc == hash_files_loop([hash_to_files |-> <<>>, warnings |-> <<>>], t, files, 1, unreadable)
  IN [duplicates |-> SelectSeq(acc.hash_to_files, HasSeveralPaths),
      scanned |-> Len(files),
      warnings |-> acc.warnings]

\* the sort with reverse=True: newest first
sort_by_mtime_newest_first(t, file_list) ==
  LET before(j, k) == \/ t[file_list[j]].mtime > t[file_list[k]].mtime
                      \/ t[file_list[j]].mtime = t[file_list[k]].mtime /\ j < k
  IN [i \in 1..Len(file_list) |->
        file_list[CHOOSE k \in 1..Len(file_list) :
                    Cardinality({j \in 1..Len(file_list) : before(j, k)}) = i - 1]]

\* list.sort(key=lambda f: f.stat().st_mtime): a stable sort on the mtime alone
sort_by_mtime(t, file_list) ==
  LET before(j, k) == \/ t[file_list[j]].mtime < t[file_list[k]].mtime
                      \/ t[file_list[j]].mtime = t[file_list[k]].mtime /\ j < k
  IN [i \in 1..Len(file_list) |->
        file_list[CHOOSE k \in 1..Len(file_list) :
                    Cardinality({j \in 1..Len(file_list) : before(j, k)}) = i - 1]]

\* Lines 377-404: the inner loop over duplicates_to_move
RECURSIVE duplicates_to_move_loop(_, _, _, _, _, _, _)
duplicates_to_move_loop(st, dir, file_list, i, clock, dry_run, fails) ==
  IF i > Len(file_list) \/ st.raised # "" THEN st
  \* get_file_size_bytes calls stat() outside the try block
  ELSE IF ~is_file(st.fs, file_list[i]) THEN stat_raises(st)
  ELSE
    LET dup == file_list[i]
        next(s) == duplicates_to_move_loop(s, dir, file_list, i + 1, clock, dry_run, fails)
        duplicates_dir == Append(dir, duplicates_folder)
        size == get_file_size_bytes(st.fs, dup)
        size_str == format_file_size(size)
        action == [name |-> relative_to(dup, dir), kind |-> "size", num |-> size_str.text,
                   unit |-> size_str.unit, dest |-> <<>>]
        res == [st.result EXCEPT !.space_recoverable = @ + size,
                                 !.actions = Append(@, action)]
    IN IF dry_run THEN next([st EXCEPT !.result = res])
       ELSE
         LET mk1 == mkdir(st.fs, duplicates_dir, FALSE)
             relative_path == relative_to(dup, dir)
             dest == duplicates_dir \o relative_path
             mk2 == IF mk1.err # "" THEN mk1 ELSE mkdir(mk1.fs, path_parent(dest), TRUE)
             mv == IF mk2.err # "" THEN mk2
                   ELSE move_step(mk2.fs, clock, dup, dest, fails)
         IN IF mv.err = ""
              THEN next([st EXCEPT !.fs = mv.fs, !.result = record_success(res)])
              ELSE next([st EXCEPT !.fs = mv.fs, !.result = record_error(res, dup, mv.err)])

\* Lines 368-404: the outer loop over the duplicate groups
RECURSIVE duplicates_loop(_, _, _, _, _, _, _)
duplicates_loop(st, dir, duplicates, g, clock, dry_run, fails) ==
  IF g > Len(duplicates) \/ st.raised # "" THEN st
  \* the sort key calls stat() on every path of the group
  ELSE IF \E k \in 1..Len(duplicates[g].paths) : ~is_file(st.fs, duplicates[g].paths[k])
    THEN stat_raises(st)
  ELSE
    LET file_list == sort_by_mtime(st.fs, duplicates[g].paths)
        original == file_list[1]
        st1 == [st EXCEPT !.originals = Append(@, relative_to(original, dir))]
        st2 == duplicates_to_move_loop(st1, dir, file_list, 2, clock, dry_run, fails)
    IN duplicates_loop(st2, dir, duplicates, g + 1, clock, dry_run, fails)

\* handle_duplicates while another process removes the paths in `gone` after
\* find_duplicates has returned (line 353) and before the loop (line 368) starts
handle_duplicates_racing(t, gone, dir, clock, dry_run, rank, fails, unreadable) ==
  LET found == find_duplicates(t, dir, TRUE, rank, unreadable)
      st == duplicates_loop([raised |-> "", fs |-> Without(t, gone), result |-> OperationResult,
                             originals |-> <<>>],
                            dir, found.duplicates, 1, clock, dry_run, fails)
  IN IF found.duplicates = <<>>
       THEN [raised |-> "", fs |-> t, result |-> OperationResult, originals |-> <<>>,
             duplicates |-> found.duplicates, warnings |-> found.warnings]
       ELSE [raised |-> st.raised, fs |-> st.fs, result |-> st.result, originals |-> st.originals,
             duplicates |-> found.duplicates, warnings |-> found.warnings]

handle_duplicates(t, dir, clock, dry_run, rank, fails, unreadable) ==
  handle_duplicates_racing(t, {}, dir, clock, dry_run, rank, fails, unreadable)

(***************************************************************************)
(* cli.py: run().  The stages share the clock of the run, the ranking of   *)
(* the directory listing and the files the operating system refuses; a run *)
(* draws its ranking from two opposite ones.                               *)
(***************************************************************************)
NoStage == [raised |-> "", ran |-> FALSE, result |-> OperationResult]

Stage(r) == [raised |-> r.raised, ran |-> TRUE, result |-> r.result]

\* what has happened so far inside the try block of run
Entered(t) ==
  [raised |-> "", fs |-> t,
   stages |-> [cleanup |-> NoStage, duplicates |-> NoStage,
               organize |-> NoStage, archive |-> NoStage]]

\* One stage has returned r: an exception leaves the try block
After(st, r, stage) ==
  [raised |-> r.raised, fs |-> r.fs, stages |-> [st.stages EXCEPT ![stage] = Stage(r)]]

run_cleanup(st, dir, clock, args, rank, fails) ==
  IF st.raised # "" \/ ~args.cleanup THEN st
  ELSE After(st, cleanup_temp_files(st.fs, dir, clock, args.dry_run, rank, fails), "cleanup")

run_duplicates(st, dir, clock, args, rank, fails, unreadable) ==
  IF st.raised # "" \/ ~args.duplicates THEN st
  ELSE After(st, handle_duplicates(st.fs, dir, clock, args.dry_run, rank, fails, unreadable),
             "duplicates")

run_organize(st, dir, clock, args, rank, fails) ==
  IF st.raised # "" THEN st
  ELSE After(st, organize_files(st.fs, dir, clock, args.dry_run, args.recents, rank, fails),
             "organize")

run_archive(st, dir, clock, args, rank, fails) ==
  IF st.raised # "" \/ ~args.archive THEN st
  ELSE After(st, archive_old_files(st.fs, dir, clock, args.dry_run, rank, fails), "archive")

\* return 0 at the end of the try block, return 1 from the except clause
Exit(st) == [exit_code |-> IF st.raised # "" THEN 1 ELSE 0, fs |-> st.fs, stages |-> st.stages]

\* run with the archive stage ahead of the organize stage
run_archive_before_organize(t, dir, clock, args, rank, fails, unreadable) ==
  IF ~is_dir(t, dir) THEN [exit_code |-> 1, fs |-> t, stages |-> Entered(t).stages]
  ELSE Exit(run_organize(
              run_archive(
                run_duplicates(
                  run_cleanup(Entered(t), dir, clock, args, rank, fails),
                  dir, clock, args, rank, fails, unreadable),
                dir, clock, args, rank, fails),
              dir, clock, args, rank, fails))

run(t, dir, clock, args, rank, fails, unreadable) ==
  IF ~is_dir(t, dir) THEN [exit_code |-> 1, fs |-> t, stages |-> Entered(t).stages]
  ELSE Exit(run_archive(
              run_organize(
                run_duplicates(
                  run_cleanup(Entered(t), dir, clock, args, rank, fails),
                  dir, clock, args, rank, fails, unreadable),
                dir, clock, args, rank, fails),
              dir, clock, args, rank, fails))

(***************************************************************************)
(* Initial directory trees: every set of at most MaxSeeds of the seeds     *)
(* below that can exist together.  Ages are relative to the initial clock. *)
(***************************************************************************)
Now0 == 12 * 3600

Hour == 3600

\* file contents: exactly at the large-file threshold (two that differ in
\* their last byte only), one byte over it, and empty
SmallBytes == [i \in 1..large_file_threshold_bytes |-> 1]

OtherBytes == [i \in 1..large_file_threshold_bytes |-> IF i = large_file_threshold_bytes THEN 2 ELSE 1]

EmptyBytes == <<>>

LargeBytes == [i \in 1..(large_file_threshold_bytes + 1) |-> 1]

\* the name generate_unique_filename picks at the initial clock
Stamped(nm) == path_stem(<<nm>>) \o <<"_">> \o strftime(Now0) \o path_suffix(<<nm>>)

Seed(rel, content, age) == [rel |-> rel, content |-> content, age |-> age]

TopSeeds ==
  { Seed(<<<<"a",".","c">>>>, SmallBytes, 0),
    Seed(<<<<"a",".","c">>>>, LargeBytes, 0),
    Seed(<<<<"a",".","c">>>>, SmallBytes, recents_age_hours * Hour),
    Seed(<<<<"a",".","c">>>>, LargeBytes, (archive_age_days + 1) * SecondsPerDay),
    Seed(<<<<"a",".","c">>>>, SmallBytes, archive_age_days * SecondsPerDay + 23 * Hour),
    Seed(<<<<"b",".","C">>>>, SmallBytes, 2 * SecondsPerDay),
    Seed(<<<<"b",".","C">>>>, SmallBytes, (archive_age_days + 1) * SecondsPerDay),
    Seed(<<<<"t",".","i","c","a">>>>, SmallBytes, 2 * SecondsPerDay),
    Seed(<<<<"t",".","i","c","a">>>>, SmallBytes, auto_delete_age_days * SecondsPerDay + 23 * Hour),
    Seed(<<<<"u",".","I","C","A">>>>, OtherBytes, 2 * SecondsPerDay),
    Seed(<<<<".","h">>>>, SmallBytes, (archive_age_days + 1) * SecondsPerDay),
    Seed(<<<<"C","o","d","e">>>>, OtherBytes, 2 * SecondsPerDay),
    Seed(<<<<"_","a",".","c">>>>, SmallBytes, 2 * SecondsPerDay) }

DeepSeeds ==
  { Seed(<<<<"s">>, <<"a",".","c">>>>, SmallBytes, 2 * SecondsPerDay),
    Seed(<<<<"s">>, <<"a",".","c">>>>, SmallBytes, (archive_age_days + 1) * SecondsPerDay),
    Seed(<<<<"s">>, <<"a",".","c">>>>, EmptyBytes, 2 * SecondsPerDay),
    Seed(<<<<".","d">>, <<"a",".","c">>>>, SmallBytes, 2 * SecondsPerDay),
    Seed(<<<<"C","o","d","e">>, <<"a",".","c">>>>, OtherBytes, 2 * SecondsPerDay),
    Seed(<<archive_folder, <<"C","o","d","e">>, <<"a",".","c">>>>, SmallBytes, 2 * SecondsPerDay),
    Seed(<<duplicates_folder, <<"a",".","c">>>>, OtherBytes, 2 * SecondsPerDay) }

\* a folder that holds a name and the name generate_unique_filename picks for it
TakenTwice(folder, nm) ==
  { Seed(folder \o <<nm>>, OtherBytes, 2 * SecondsPerDay),
    Seed(folder \o <<Stamped(nm)>>, OtherBytes, 3 * SecondsPerDay) }

\* a seed is a file, or a folder with both names taken
Seeds ==
  {{x} : x \in TopSeeds \cup DeepSeeds}
    \cup { TakenTwice(<<<<"C","o","d","e">>>>, <<"a",".","c">>),
           TakenTwice(<<duplicates_folder>>, <<"a",".","c">>) }

\* no two files at one path, and no file where another file needs a folder
Compatible(S) ==
  /\ \A X, Y \in S : X # Y => X \cap Y = {}
  /\ \A x, y \in UNION S : x # y => ~is_prefix(x.rel, y.rel)

RECURSIVE SeedSets(_)
SeedSets(k) ==
  IF k = 0 THEN {{}}
  ELSE LET smaller == SeedSets(k - 1)
       IN smaller \cup {T \cup {X} : T \in smaller, X \in Seeds}

BuildTree(S) ==
  LET filePaths == {directory \o x.rel : x \in UNION S}
      dirPaths == UNION {{SubSeq(p, 1, n) : n \in (Len(directory) + 1)..(Len(p) - 1)} :
                           p \in filePaths}
      seedAt(p) == CHOOSE x \in UNION S : directory \o x.rel = p
  IN [p \in filePaths \cup dirPaths |->
        IF p \in filePaths
          THEN FileEntry(p, seedAt(p).content, Now0 - seedAt(p).age)
          ELSE DirEntry]

InitialTrees == {BuildTree(S) : S \in {T \in SeedSets(MaxSeeds) : Compatible(T)}}

NoCall ==
  [op |-> "none", dry_run |-> FALSE, use_recents |-> FALSE, recursive |-> FALSE,
   archive |-> FALSE, cleanup |-> FALSE, duplicates |-> FALSE,
   clock |-> Now0, gone |-> {}, dir |-> directory, unreadable |-> {}]

Init ==
  /\ fs \in InitialTrees
  /\ now = Now0
  /\ pre = fs
  /\ call = NoCall
  /\ result = [raised |-> ""]
  /\ prev = [raised |-> ""]
  /\ calls = 0

(***************************************************************************)
(* What the environment decides for one call.                              *)
(***************************************************************************)
FailSets(S) == {F \in SUBSET S : Cardinality(F) <= MaxFailures}

\* the files a top-level pass lists, and the files a recursive scan lists
TopIds(t) == {t[p].id : p \in {f \in iterdir(t, directory) : is_file(t, f)}}

AllIds(t) == {t[p].id : p \in {f \in rglob(t, directory) : is_file(t, f)}}

Returned(op, dry_run, use_recents, recursive, args) ==
  [op |-> op, dry_run |-> dry_run, use_recents |-> use_recents, recursive |-> recursive,
   archive |-> args.archive, cleanup |-> args.cleanup, duplicates |-> args.duplicates,
   clock |-> now, gone |-> {}, dir |-> directory, unreadable |-> {}]

NoArgs == [archive |-> FALSE, cleanup |-> FALSE, duplicates |-> FALSE]

Finish(r, c) ==
  /\ fs' = r.fs
  /\ pre' = fs
  /\ call' = c
  /\ result' = [x \in DOMAIN r \ {"fs"} |-> r[x]]
  /\ prev' = result
  /\ calls' = calls + 1
  /\ UNCHANGED now

OrganizeFiles ==
  /\ calls < MaxCalls
  /\ \E dry_run, use_recents \in BOOLEAN, rank \in Rankings(TopIds(fs)), fails \in FailSets(TopIds(fs)) :
       Finish(organize_files(fs, directory, now, dry_run, use_recents, rank, fails),
              Returned("organize_files", dry_run, use_recents, FALSE, NoArgs))

ArchiveOldFiles ==
  /\ calls < MaxCalls
  /\ \E dry_run \in BOOLEAN, rank \in Rankings(TopIds(fs)), fails \in FailSets(TopIds(fs)) :
       Finish(archive_old_files(fs, directory, now, dry_run, rank, fails),
              Returned("archive_old_files", dry_run, FALSE, FALSE, NoArgs))

CleanupTempFiles ==
  /\ calls < MaxCalls
  /\ \E dry_run \in BOOLEAN, rank \in Rankings(TopIds(fs)), fails \in FailSets(TopIds(fs)) :
       Finish(cleanup_temp_files(fs, directory, now, dry_run, rank, fails),
              Returned("cleanup_temp_files", dry_run, FALSE, FALSE, NoArgs))

FindDuplicates ==
  /\ calls < MaxCalls
  /\ \E recursive \in BOOLEAN, rank \in Rankings(AllIds(fs)), unreadable \in FailSets(AllIds(fs)) :
       Finish([fs |-> fs, raised |-> ""] @@ find_duplicates(fs, directory, recursive, rank, unreadable),
              [Returned("find_duplicates", FALSE, FALSE, recursive, NoArgs)
                 EXCEPT !.unreadable = unreadable])

HandleDuplicates ==
  /\ calls < MaxCalls
  /\ \E dry_run \in BOOLEAN, rank \in Rankings(AllIds(fs)),
        fails \in FailSets(AllIds(fs)), unreadable \in FailSets(AllIds(fs)) :
       /\ Cardinality(fails \cup unreadable) <= MaxFailures
       /\ Finish(handle_duplicates(fs, directory, now, dry_run, rank, fails, unreadable),
                 Returned("handle_duplicates", dry_run, FALSE, TRUE, NoArgs))

Run ==
  /\ calls < MaxCalls
  /\ \E args \in [dry_run : BOOLEAN, archive : BOOLEAN, cleanup : BOOLEAN,
                  duplicates : BOOLEAN, recents : BOOLEAN],
        rank \in OppositeRankings(AllIds(fs)), fails \in FailSets(AllIds(fs)) :
       Finish(run(fs, directory, now, args, rank, fails, {}),
              Returned("run", args.dry_run, args.recents, TRUE, args))

Next ==
  \/ OrganizeFiles
  \/ ArchiveOldFiles
  \/ CleanupTempFiles
  \/ FindDuplicates
  \/ HandleDuplicates
  \/ Run

Spec == Init /\ [][Next]_vars

(***************************************************************************)
(* The same calls made while another process deletes files of the          *)
(* directory: the files in `gone` disappear after the call has listed its  *)
(* files and before it processes the first of them.  A vanished file       *)
(* counts as one of the failures of the call.                              *)
(***************************************************************************)
TopFiles(t) == {f \in iterdir(t, directory) : is_file(t, f)}

AllFiles(t) == {f \in rglob(t, directory) : is_file(t, f)}

GoneSets(S) == {G \in SUBSET S : Cardinality(G) \in 1..MaxFailures}

Racing(c, gone) == [c EXCEPT !.gone = gone]

OrganizeFilesRacing ==
  /\ calls < MaxCalls
  /\ \E dry_run, use_recents \in BOOLEAN, rank \in Rankings(TopIds(fs)),
        gone \in GoneSets(TopFiles(fs)), fails \in FailSets(TopIds(fs)) :
       /\ Cardinality(gone) + Cardinality(fails) <= MaxFailures
       /\ Finish(organize_files_racing(fs, gone, directory, now, dry_run, use_recents, rank, fails),
                 Racing(Returned("organize_files", dry_run, use_recents, FALSE, NoArgs), gone))

ArchiveOldFilesRacing ==
  /\ calls < MaxCalls
  /\ \E dry_run \in BOOLEAN, rank \in Rankings(TopIds(fs)),
        gone \in GoneSets(TopFiles(fs)), fails \in FailSets(TopIds(fs)) :
       /\ Cardinality(gone) + Cardinality(fails) <= MaxFailures
       /\ Finish(archive_old_files_racing(fs, gone, directory, now, dry_run, rank, fails),
                 Racing(Returned("archive_old_files", dry_run, FALSE, FALSE, NoArgs), gone))

CleanupTempFilesRacing ==
  /\ calls < MaxCalls
  /\ \E dry_run \in BOOLEAN, rank \in Rankings(TopIds(fs)),
        gone \in GoneSets(TopFiles(fs)), fails \in FailSets(TopIds(fs)) :
       /\ Cardinality(gone) + Cardinality(fails) <= MaxFailures
       /\ Finish(cleanup_temp_files_racing(fs, gone, directory, now, dry_run, rank, fails),
                 Racing(Returned("cleanup_temp_files", dry_run, FALSE, FALSE, NoArgs), gone))

HandleDuplicatesRacing ==
  /\ calls < MaxCalls
  /\ \E dry_run \in BOOLEAN, rank \in Rankings(AllIds(fs)),
        gone \in GoneSets(AllFiles(fs)), fails \in FailSets(AllIds(fs)) :
       /\ Cardinality(gone) + Cardinality(fails) <= MaxFailures
       /\ Finish(handle_duplicates_racing(fs, gone, directory, now, dry_run, rank, fails, {}),
                 Racing(Returned("handle_duplicates", dry_run, FALSE, TRUE, NoArgs), gone))

NextRacing ==
  \/ OrganizeFilesRacing
  \/ ArchiveOldFilesRacing
  \/ CleanupTempFilesRacing
  \/ HandleDuplicatesRacing

SpecRacing == Init /\ [][NextRacing]_vars

(***************************************************************************)
(* The same calls made with a path that is not a directory: a path that    *)
(* does not exist, or the path of a file.                                  *)
(***************************************************************************)
NoSuchPath == Append(directory, <<"n", "o">>)

InvalidPaths(t) == {NoSuchPath} \cup AllFiles(t)

On(c, dir) == [c EXCEPT !.dir = dir]

OrganizeFilesInvalid ==
  /\ calls < MaxCalls
  /\ \E dir \in InvalidPaths(fs), dry_run, use_recents \in BOOLEAN :
       Finish(organize_files(fs, dir, now, dry_run, use_recents, <<>>, {}),
              On(Returned("organize_files", dry_run, use_recents, FALSE, NoArgs), dir))

ArchiveOldFilesInvalid ==
  /\ calls < MaxCalls
  /\ \E dir \in InvalidPaths(fs), dry_run \in BOOLEAN :
       Finish(archive_old_files(fs, dir, now, dry_run, <<>>, {}),
              On(Returned("archive_old_files", dry_run, FALSE, FALSE, NoArgs), dir))

CleanupTempFilesInvalid ==
  /\ calls < MaxCalls
  /\ \E dir \in InvalidPaths(fs), dry_run \in BOOLEAN :
       Finish(cleanup_temp_files(fs, dir, now, dry_run, <<>>, {}),
              On(Returned("cleanup_temp_files", dry_run, FALSE, FALSE, NoArgs), dir))

HandleDuplicatesInvalid ==
  /\ calls < MaxCalls
  /\ \E dir \in InvalidPaths(fs), dry_run \in BOOLEAN :
       Finish(handle_duplicates(fs, dir, now, dry_run, <<>>, {}, {}),
              On(Returned("handle_duplicates", dry_run, FALSE, TRUE, NoArgs), dir))

NextInvalid ==
  \/ OrganizeFilesInvalid
  \/ ArchiveOldFilesInvalid
  \/ CleanupTempFilesInvalid
  \/ HandleDuplicatesInvalid

SpecInvalid == Init /\ [][NextInvalid]_vars

(***************************************************************************)
(* The command line: run() on the directory, and on a path that is not a   *)
(* directory.                                                              *)
(***************************************************************************)
RunInvalid ==
  /\ calls < MaxCalls
  /\ \E dir \in InvalidPaths(fs),
        args \in [dry_run : BOOLEAN, archive : BOOLEAN, cleanup : BOOLEAN,
                  duplicates : BOOLEAN, recents : BOOLEAN] :
       Finish(run(fs, dir, now, args, <<>>, {}, {}),
              On(Returned("run", args.dry_run, args.recents, TRUE, args), dir))

NextCli ==
  \/ Run
  \/ RunInvalid

SpecCli == Init /\ [][NextCli]_vars

(***************************************************************************)
(* Config.get_category on its own: an extension is drawn, spelled in lower *)
(* case, in upper case or with a capital first letter, and classified.     *)
(***************************************************************************)
str_upper(s) ==
  [i \in 1..Len(s) |->
     IF \E u \in DOMAIN UpperToLower : UpperToLower[u] = s[i]
       THEN CHOOSE u \in DOMAIN UpperToLower : UpperToLower[u] = s[i]
       ELSE s[i]]

\* ".jpg" -> ".Jpg"
capitalized(s) == [i \in 1..Len(s) |-> IF i = 2 THEN str_upper(s)[i] ELSE s[i]]

ListedExtensions == UNION {categories[i].extensions : i \in 1..Len(categories)}

UnlistedExtensions ==
  { <<>>, <<".">>, <<".","x","y","z">>, <<".","u","n","k","n","o","w","n">>,
    <<"j","p","g">>, <<".","j","p","g","x">>, <<".","j">>, <<".","i","c","a">> }

Spellings(e) == {e, str_upper(e), capitalized(e)}

InitClassify ==
  /\ fs = [p \in {} |-> DirEntry]
  /\ now = Now0
  /\ pre = fs
  /\ \E e \in ListedExtensions \cup UnlistedExtensions : \E x \in Spellings(e) :
       call = [op |-> "none", extension |-> x, lower |-> e]
  /\ result = [raised |-> ""]
  /\ prev = [raised |-> ""]
  /\ calls = 0

GetCategory ==
  /\ calls < MaxCalls
  /\ call' = [call EXCEPT !.op = "get_category"]
  /\ result' = [raised |-> "", category |-> Config_get_category(call.extension)]
  /\ prev' = result
  /\ calls' = calls + 1
  /\ UNCHANGED <<fs, now, pre>>

NextClassify == GetCategory

SpecClassify == InitClassify /\ [][NextClassify]_vars

(***************************************************************************)
(* The age and size helpers of utils.py on their own: one file is drawn    *)
(* with a modification time around the thresholds, before or after the     *)
(* clock, and a size around the large-file threshold, and is measured.     *)
(***************************************************************************)
MeasuredFile == Append(directory, <<"a", ".", "c">>)

\* seconds from the modification time to the clock
MeasuredAges ==
  LET around(x) == {x - 1, x, x + 1}
  IN around(0) \cup around(Hour) \cup around(0 - Hour)
       \cup around(recents_age_hours * Hour)
       \cup around(SecondsPerDay) \cup around(0 - SecondsPerDay)
       \cup around(auto_delete_age_days * SecondsPerDay + SecondsPerDay)
       \cup around(archive_age_days * SecondsPerDay)
       \cup around((archive_age_days + 1) * SecondsPerDay)

MeasuredSizes == 0..(large_file_threshold_bytes + 2)

InitMeasure ==
  /\ \E age \in MeasuredAges, size \in MeasuredSizes :
       fs = (MeasuredFile :> FileEntry(MeasuredFile, [i \in 1..size |-> 1], Now0 - age))
  /\ now = Now0
  /\ pre = fs
  /\ call = NoCall
  /\ result = [raised |-> ""]
  /\ prev = [raised |-> ""]
  /\ calls = 0

Measure ==
  /\ calls < MaxCalls
  /\ call' = [NoCall EXCEPT !.op = "measure", !.clock = now]
  /\ result' = [raised |-> "",
                age_days |-> get_file_age_days(fs, MeasuredFile, now),
                age_hours |-> get_file_age_hours(fs, MeasuredFile, now),
                size |-> get_file_size_bytes(fs, MeasuredFile),
                old |-> is_old_file(fs, MeasuredFile, now),
                recent |-> is_recent_file(fs, MeasuredFile, now),
                large |-> is_large_file(fs, MeasuredFile)]
  /\ prev' = result
  /\ pre' = fs
  /\ calls' = calls + 1
  /\ UNCHANGED <<fs, now>>

NextMeasure == Measure

SpecMeasure == InitMeasure /\ [][NextMeasure]_vars

(***************************************************************************)
(* organize_files run again and again on the same directory, without       *)
(* dry-run, while the clock may move on between two runs by a little more  *)
(* than the recents threshold.                                             *)
(***************************************************************************)
TickSeconds == (recents_age_hours + 1) * Hour

Tick ==
  /\ now < Now0 + MaxTicks * TickSeconds
  /\ now' = now + TickSeconds
  /\ UNCHANGED <<fs, pre, call, result, prev, calls>>

OrganizeAgain ==
  /\ calls < MaxRuns
  /\ \E use_recents \in BOOLEAN, rank \in Rankings(TopIds(fs)), fails \in FailSets(TopIds(fs)) :
       Finish(organize_files(fs, directory, now, FALSE, use_recents, rank, fails),
              Returned("organize_files", FALSE, use_recents, FALSE, NoArgs))

NextRepeat ==
  \/ OrganizeAgain
  \/ Tick

SpecRepeat == Init /\ [][NextRepeat]_vars

(***************************************************************************)
(* Sequences of orchestrator calls on the same directory, none of them a   *)
(* dry run: up to MaxRuns calls of organize_files, archive_old_files,      *)
(* cleanup_temp_files, find_duplicates and handle_duplicates in any order. *)
(* Every call sees the tree the call before it left, and its own listing   *)
(* order, refused moves and unreadable files.                              *)
(***************************************************************************)
ArchiveAgain ==
  /\ calls < MaxRuns
  /\ \E rank \in OppositeRankings(TopIds(fs)), fails \in FailSets(TopIds(fs)) :
       Finish(archive_old_files(fs, directory, now, FALSE, rank, fails),
              Returned("archive_old_files", FALSE, FALSE, FALSE, NoArgs))

CleanupAgain ==
  /\ calls < MaxRuns
  /\ \E rank \in OppositeRankings(TopIds(fs)), fails \in FailSets(TopIds(fs)) :
       Finish(cleanup_temp_files(fs, directory, now, FALSE, rank, fails),
              Returned("cleanup_temp_files", FALSE, FALSE, FALSE, NoArgs))

FindDuplicatesAgain ==
  /\ calls < MaxRuns
  /\ \E recursive \in BOOLEAN, rank \in OppositeRankings(AllIds(fs)),
        unreadable \in FailSets(AllIds(fs)) :
       Finish([fs |-> fs, raised |-> ""] @@ find_duplicates(fs, directory, recursive, rank, unreadable),
              [Returned("find_duplicates", FALSE, FALSE, recursive, NoArgs)
                 EXCEPT !.unreadable = unreadable])

HandleDuplicatesAgain ==
  /\ calls < MaxRuns
  /\ \E rank \in OppositeRankings(AllIds(fs)),
        fails \in FailSets(AllIds(fs)), unreadable \in FailSets(AllIds(fs)) :
       /\ Cardinality(fails \cup unreadable) <= MaxFailures
       /\ Finish(handle_duplicates(fs, directory, now, FALSE, rank, fails, unreadable),
                 [Returned("handle_duplicates", FALSE, FALSE, TRUE, NoArgs)
                    EXCEPT !.unreadable = unreadable])

NextSequence ==
  \/ OrganizeAgain
  \/ ArchiveAgain
  \/ CleanupAgain
  \/ FindDuplicatesAgain
  \/ HandleDuplicatesAgain

SpecSequence == Init /\ [][NextSequence]_vars

(***************************************************************************)
(* organize_files on directories where the files of one listing compete:   *)
(* a top-level file that already bears the name generate_unique_filename   *)
(* picks for another one, and a top-level file that bears the name of a    *)
(* category folder.                                                        *)
(***************************************************************************)
OrderSeeds ==
  { {Seed(<<<<"a",".","c">>>>, SmallBytes, 2 * SecondsPerDay)},
    {Seed(<<Stamped(<<"a",".","c">>)>>, OtherBytes, 2 * SecondsPerDay)},
    {Seed(<<<<"b",".","C">>>>, SmallBytes, 3 * SecondsPerDay)},
    {Seed(<<<<".","h">>>>, SmallBytes, 2 * SecondsPerDay)},
    {Seed(<<<<"C","o","d","e">>>>, OtherBytes, 2 * SecondsPerDay)},
    {Seed(<<<<"C","o","d","e">>, <<"a",".","c">>>>, EmptyBytes, 2 * SecondsPerDay)},
    {Seed(<<<<"C","o","d","e">>, <<"b",".","C">>>>, OtherBytes, 2 * SecondsPerDay)} }

OrderTrees ==
  {BuildTree(S) : S \in {T \in SUBSET OrderSeeds : Cardinality(T) <= MaxSeeds /\ Compatible(T)}}

InitOrder ==
  /\ fs \in OrderTrees
  /\ now = Now0
  /\ pre = fs
  /\ call = NoCall
  /\ result = [raised |-> ""]
  /\ prev = [raised |-> ""]
  /\ calls = 0

NextOrder == OrganizeFiles

SpecOrder == InitOrder /\ [][NextOrder]_vars

(***************************************************************************)
(* Vocabulary of the properties.  A file is followed from `pre` to `fs`    *)
(* by its identity.                                                        *)
(***************************************************************************)
Orchestrators ==
  {"organize_files", "archive_old_files", "cleanup_temp_files", "handle_duplicates"}

Movers == {"organize_files", "archive_old_files", "handle_duplicates"}

Res == result.result

Present(t, id) == \E p \in Files(t) : t[p].id = id

WhereIs(t, id) == CHOOSE p \in Files(t) : t[p].id = id

ContentCount(t, c) == Cardinality({p \in Files(t) : t[p].content = c})

Placement(t) == [p \in Files(t) |-> t[p].id]

\* the file that was at p is at another path now
Moved(p) == p \in Files(pre) /\ Present(fs, pre[p].id) /\ WhereIs(fs, pre[p].id) # p

\* the file that was at p is gone and nothing took its place
Deleted(p) == p \in Files(pre) /\ ~Present(fs, pre[p].id) /\ p \notin DOMAIN fs

\* the file that was at p is gone and another entry is at p
Overwritten(p) == p \in Files(pre) /\ ~Present(fs, pre[p].id) /\ p \in DOMAIN fs

ArgsOf(c, dry_run) ==
  [dry_run |-> dry_run, archive |-> c.archive, cleanup |-> c.cleanup,
   duplicates |-> c.duplicates, recents |-> c.use_recents]

\* the files whose bytes the last call could not read
UnreadableSeen == {pre[result.warnings[k]].id : k \in 1..Len(result.warnings)}

\* the trees the last call can leave when it is made without dry_run (any
\* listing order, any refused move; the same unreadable files)
RealTrees ==
  IF call.op = "organize_files"
    THEN {organize_files(pre, directory, call.clock, FALSE, call.use_recents, rank, fails).fs :
            rank \in Rankings(TopIds(pre)), fails \in FailSets(TopIds(pre))}
  ELSE IF call.op = "archive_old_files"
    THEN {archive_old_files(pre, directory, call.clock, FALSE, rank, fails).fs :
            rank \in Rankings(TopIds(pre)), fails \in FailSets(TopIds(pre))}
  ELSE IF call.op = "cleanup_temp_files"
    THEN {cleanup_temp_files(pre, directory, call.clock, FALSE, rank, fails).fs :
            rank \in Rankings(TopIds(pre)), fails \in FailSets(TopIds(pre))}
  ELSE IF call.op = "handle_duplicates"
    THEN {handle_duplicates(pre, directory, call.clock, FALSE, rank, fails, UnreadableSeen).fs :
            rank \in Rankings(AllIds(pre)), fails \in FailSets(AllIds(pre))}
  ELSE IF call.op = "run"
    THEN {run(pre, directory, call.clock, ArgsOf(call, FALSE), rank, fails, {}).fs :
            rank \in OppositeRankings(AllIds(pre)), fails \in FailSets(AllIds(pre))}
  ELSE {pre}

RealCallMovesOrDeletes == \E t \in RealTrees : Placement(t) # Placement(pre)

ReturnedActions ==
  IF call.op = "run"
    THEN result.stages.cleanup.result.actions \o result.stages.duplicates.result.actions
           \o result.stages.organize.result.actions \o result.stages.archive.result.actions
    ELSE Res.actions

(***************************************************************************)
(* C1: after a non-dry-run organize_files, archive_old_files or            *)
(* handle_duplicates, every file content that was under the root is still  *)
(* there as many times as before, and no file that existed has been        *)
(* replaced by a moved one -- also when the destination folder already     *)
(* holds the name and the timestamp-suffixed name.                         *)
(***************************************************************************)
C1_NothingLost ==
  (call.op \in Movers /\ ~call.dry_run) =>
    \A p \in Files(pre) :
      /\ ContentCount(fs, pre[p].content) = ContentCount(pre, pre[p].content)
      /\ Present(fs, pre[p].id)

(***************************************************************************)
(* C2: a dry-run call of an orchestrator or of the CLI pipeline leaves the *)
(* tree as it was, and returns at least one action whenever the same call  *)
(* without dry_run can move or delete a file.                              *)
(***************************************************************************)
C2_DryRunChangesNothing ==
  (call.op \in Orchestrators \cup {"run"} /\ call.dry_run) =>
    /\ fs = pre
    /\ RealCallMovesOrDeletes => ReturnedActions # <<>>

C2_Witness ==
  /\ call.op = "handle_duplicates"
  /\ call.dry_run
  /\ RealCallMovesOrDeletes
  /\ ReturnedActions # <<>>
  /\ fs = pre

(***************************************************************************)
(* C3: a file is deleted only by cleanup_temp_files (alone or as the       *)
(* cleanup stage of a run), and only a top-level file whose lowercased     *)
(* extension is in auto_delete_extensions and whose age in whole days is   *)
(* greater than auto_delete_age_days; a file whose age equals the          *)
(* threshold is kept.                                                      *)
(***************************************************************************)
C3_OnlyCleanupDeletes ==
  \A p \in Files(pre) :
    /\ Deleted(p) =>
         /\ call.op = "cleanup_temp_files" \/ (call.op = "run" /\ call.cleanup)
         /\ ~call.dry_run
         /\ path_parent(p) = directory
         /\ str_lower(path_suffix(p)) \in auto_delete_extensions
         /\ call.clock - pre[p].mtime >= (auto_delete_age_days + 1) * SecondsPerDay
    /\ (/\ call.op = "cleanup_temp_files"
        /\ (call.clock - pre[p].mtime) \div SecondsPerDay = auto_delete_age_days)
         => p \in Files(fs) /\ fs[p] = pre[p]

C3_Witness ==
  /\ call.op = "cleanup_temp_files"
  /\ \E p \in Files(pre) : Deleted(p)
  /\ \E p \in Files(pre) :
       /\ str_lower(path_suffix(p)) \in auto_delete_extensions
       /\ (call.clock - pre[p].mtime) \div SecondsPerDay = auto_delete_age_days
       /\ p \in Files(fs)

(***************************************************************************)
(* C4: when a non-dry-run orchestrator moves a file into a folder that     *)
(* already has an entry of that name, the entry stays as it was, the moved *)
(* file is in the same folder as <stem>_<YYYYmmdd_HHMMSS><suffix> with its *)
(* content, and every moved file is counted in success_count.              *)
(***************************************************************************)
C4_CollisionRenames ==
  (call.op \in Movers /\ ~call.dry_run) =>
    /\ Res.success_count = Cardinality({p \in Files(pre) : Moved(p)})
    /\ \A p \in Files(pre) :
         Moved(p) =>
           LET q == WhereIs(fs, pre[p].id)
               taken == Append(path_parent(q), path_name(p))
           IN taken \in DOMAIN pre =>
                /\ taken \in DOMAIN fs /\ fs[taken] = pre[taken]
                /\ path_name(q) = path_stem(p) \o <<"_">> \o strftime(call.clock) \o path_suffix(p)
                /\ fs[q].content = pre[p].content

C4_Witness ==
  /\ call.op = "organize_files"
  /\ ~call.dry_run
  /\ Res.error_count = 0
  /\ \E p \in Files(pre) :
       /\ Moved(p)
       /\ Append(path_parent(WhereIs(fs, pre[p].id)), path_name(p)) \in Files(pre)

(***************************************************************************)
(* Vocabulary of the duplicate properties.                                 *)
(***************************************************************************)
Groups == result.duplicates

GroupPaths(g) == {Groups[g].paths[k] : k \in 1..Len(Groups[g].paths)}

Grouped == UNION {GroupPaths(g) : g \in 1..Len(Groups)}

Unread == {result.warnings[k] : k \in 1..Len(result.warnings)}

Original(g) == directory \o result.originals[g]

PositionIn(paths, p) == CHOOSE k \in 1..Len(paths) : paths[k] = p

\* the files a scan of `directory` has to consider: not empty, and no
\* component below the scanned directory starts with "." or "_"
Eligible(t, recursive) ==
  {p \in Files(t) :
     /\ is_prefix(directory, p)
     /\ recursive \/ Len(p) = Len(directory) + 1
     /\ t[p].content # <<>>
     /\ \A i \in (Len(directory) + 1)..Len(p) : Head(p[i]) \notin {".", "_"}}

\* the characters of the file names, in the order of their code points
Alphabet ==
  <<".", "0", "1", "2", "3", "4", "5", "6", "7", "8", "9",
    "A", "B", "C", "D", "E", "F", "G", "H", "I", "J", "K", "L", "M",
    "N", "O", "P", "Q", "R", "S", "T", "U", "V", "W", "X", "Y", "Z", "_",
    "a", "b", "c", "d", "e", "f", "g", "h", "i", "j", "k", "l", "m",
    "n", "o", "p", "q", "r", "s", "t", "u", "v", "w", "x", "y", "z">>

CodePoint(c) == CHOOSE i \in 1..Len(Alphabet) : Alphabet[i] = c

\* a < b for two strings, character by character
RECURSIVE StrLess(_, _)
StrLess(a, b) ==
  IF b = <<>> THEN FALSE
  ELSE IF a = <<>> THEN TRUE
  ELSE IF Head(a) # Head(b) THEN CodePoint(Head(a)) < CodePoint(Head(b))
  ELSE StrLess(Tail(a), Tail(b))

\* p < q for two paths, component by component
RECURSIVE PathLess(_, _)
PathLess(p, q) ==
  IF q = <<>> THEN FALSE
  ELSE IF p = <<>> THEN TRUE
  ELSE IF Head(p) # Head(q) THEN StrLess(Head(p), Head(q))
  ELSE PathLess(Tail(p), Tail(q))

\* every group has one member older than all its other members
NoTies ==
  \A g \in 1..Len(Groups) :
    \A k \in 1..Len(Groups[g].paths) :
      Groups[g].paths[k] # Original(g) => pre[Original(g)].mtime < pre[Groups[g].paths[k]].mtime

\* the originals the last call picks when the directory is listed by `rank`
OriginalsUnder(rank) ==
  LET r == handle_duplicates(pre, directory, call.clock, call.dry_run, rank, {}, UnreadableSeen)
  IN {directory \o r.originals[g] : g \in 1..Len(r.originals)}

ErrorNames == {Res.errors[k].name : k \in 1..Len(Res.errors)}

\* the file that was at p is now in folder `dest_dir`: under its own name when
\* that was free, under the timestamped name when it was taken
MovedInto(p, dest_dir) ==
  LET target == Append(dest_dir, path_name(p))
      stamped == Append(dest_dir,
                        path_stem(p) \o <<"_">> \o strftime(call.clock) \o path_suffix(p))
  IN /\ Present(fs, pre[p].id)
     /\ fs[WhereIs(fs, pre[p].id)].content = pre[p].content
     /\ WhereIs(fs, pre[p].id) = IF target \in DOMAIN pre THEN stamped ELSE target

\* the move of the file at p was refused: an error names it and it is where it was
Refused(p) == path_name(p) \in ErrorNames /\ p \in Files(fs) /\ fs[p] = pre[p]

Untouched(p) == p \in Files(fs) /\ fs[p] = pre[p]

(***************************************************************************)
(* C5 (as amended): in handle_duplicates the original of every duplicate   *)
(* group is a member with the smallest modification time and is left in    *)
(* place; when several members share that time it is the one the           *)
(* directory enumeration listed first; when no group has such a tie the    *)
(* choice is the same for every enumeration order.                         *)
(***************************************************************************)
C5_OriginalIsOldestFirstListed ==
  call.op = "handle_duplicates" =>
    /\ Len(result.originals) = Len(Groups)
    /\ \A g \in 1..Len(Groups) :
         LET paths == Groups[g].paths
             o == Original(g)
         IN /\ o \in GroupPaths(g)
            /\ \A k \in 1..Len(paths) :
                 \/ pre[o].mtime < pre[paths[k]].mtime
                 \/ pre[o].mtime = pre[paths[k]].mtime /\ PositionIn(paths, o) <= k
            /\ Untouched(o)
    /\ NoTies =>
         \A rank \in Rankings(AllIds(pre)) :
           OriginalsUnder(rank) = {Original(g) : g \in 1..Len(Groups)}

C5_Witness ==
  /\ call.op = "handle_duplicates"
  /\ ~call.dry_run
  /\ \E g \in 1..Len(Groups) :
       /\ Len(Groups[g].paths) = 3
       /\ \E k \in 1..3 : pre[Groups[g].paths[k]].mtime > pre[Original(g)].mtime
       /\ \E k \in 1..3 : /\ Groups[g].paths[k] # Original(g)
                          /\ pre[Groups[g].paths[k]].mtime = pre[Original(g)].mtime

(***************************************************************************)
(* C5 as stated: the original of every duplicate group has the smallest    *)
(* modification time, and among the members that share that time it is the *)
(* one with the lexically smallest path.                                   *)
(***************************************************************************)
C5_OriginalIsOldestThenLexicallySmallest ==
  call.op = "handle_duplicates" =>
    \A g \in 1..Len(Groups) :
      \A m \in GroupPaths(g) :
        \/ pre[Original(g)].mtime < pre[m].mtime
        \/ /\ pre[Original(g)].mtime = pre[m].mtime
           /\ m = Original(g) \/ PathLess(Original(g), m)

(***************************************************************************)
(* C6: after a non-dry-run handle_duplicates every member of a duplicate   *)
(* group other than its original is under directory/_Duplicates at its     *)
(* path relative to directory (under the timestamped name when that path   *)
(* was taken, in place when its move was refused), two such members are    *)
(* never at one destination, and the originals and all files outside the   *)
(* groups are where they were.                                             *)
(***************************************************************************)
C6_DuplicatesMovedUnderRelativePath ==
  (call.op = "handle_duplicates" /\ ~call.dry_run) =>
    LET originals == {Original(g) : g \in 1..Len(Groups)}
        movers == Grouped \ originals
        dest_dir(p) == Append(directory, duplicates_folder) \o relative_to(path_parent(p), directory)
    IN /\ \A p \in movers : MovedInto(p, dest_dir(p)) \/ Refused(p)
       /\ \A p, q \in movers :
            (p # q /\ Present(fs, pre[p].id) /\ Present(fs, pre[q].id))
              => WhereIs(fs, pre[p].id) # WhereIs(fs, pre[q].id)
       /\ \A p \in Files(pre) \ movers : Untouched(p)

(***************************************************************************)
(* C7: find_duplicates returns groups of at least two distinct files; two  *)
(* scanned files that could be read are in one group exactly when their    *)
(* contents are identical; no file is in two groups; a scanned file whose   *)
(* content no other scanned file has is in no group.                       *)
(***************************************************************************)
C7_GroupsAreEqualContent ==
  call.op = "find_duplicates" =>
    LET scanned == Eligible(pre, call.recursive) \ Unread
    IN /\ \A g \in 1..Len(Groups) :
            /\ Len(Groups[g].paths) >= 2
            /\ Cardinality(GroupPaths(g)) = Len(Groups[g].paths)
       /\ \A f1, f2 \in scanned :
            f1 # f2 =>
              ((\E g \in 1..Len(Groups) : f1 \in GroupPaths(g) /\ f2 \in GroupPaths(g))
                 <=> pre[f1].content = pre[f2].content)
       /\ \A p \in Files(pre) :
            Cardinality({g \in 1..Len(Groups) : p \in GroupPaths(g)}) <= 1
       /\ \A p \in scanned :
            (\A q \in scanned \ {p} : pre[q].content # pre[p].content) => p \notin Grouped

C7_Witness ==
  /\ call.op = "find_duplicates"
  /\ Len(Groups) >= 1
  /\ Unread = {}
  /\ \E p \in Eligible(pre, call.recursive) \ Grouped :
       \E q \in Grouped : /\ Len(pre[p].content) = Len(pre[q].content)
                          /\ pre[p].content # pre[q].content

(***************************************************************************)
(* C8: find_duplicates groups no empty file, no file whose name starts     *)
(* with "." and no file with a component below the scanned directory that  *)
(* starts with "." or "_"; the components of the scanned directory itself  *)
(* exclude nothing; without `recursive` it scans the direct children only, *)
(* with it the whole subtree.                                              *)
(***************************************************************************)
C8_ScanExclusions ==
  call.op = "find_duplicates" =>
    /\ \A p \in Grouped :
         /\ p \in Files(pre)
         /\ pre[p].content # <<>>
         /\ Head(path_name(p)) # "."
         /\ \A i \in 1..Len(relative_to(p, directory)) :
              Head(relative_to(p, directory)[i]) \notin {".", special_folder_prefix[1]}
         /\ ~call.recursive => path_parent(p) = directory
    /\ result.scanned = Cardinality(Eligible(pre, call.recursive))
    /\ \A p, q \in Eligible(pre, call.recursive) \ Unread :
         (p # q /\ pre[p].content = pre[q].content) => p \in Grouped

C8_Witness ==
  /\ call.op = "find_duplicates"
  /\ call.recursive
  /\ \E i \in 1..Len(directory) : Head(directory[i]) \in {".", "_"}
  /\ \E p \in Grouped :
       /\ path_parent(p) # directory
       /\ \E q \in Files(pre) \ (Grouped \cup Unread) :
            /\ pre[q].content = pre[p].content
            /\ path_parent(q) # directory

(***************************************************************************)
(* C9: organize_files records one action per top-level file whose name     *)
(* does not start with "."; its folder is the recents folder when          *)
(* use_recents is set and the file is less than recents_age_hours old      *)
(* (also when it is oversized), else the large-files folder when its size  *)
(* exceeds large_file_threshold_bytes, else the category of its extension; *)
(* without dry_run the file is moved to directory/<folder>/<name>.         *)
(***************************************************************************)
C9_OrganizePriority ==
  (call.op = "organize_files" /\ result.raised = "") =>
    LET top == {p \in Files(pre) : path_parent(p) = directory /\ Head(path_name(p)) # "."}
        folder(p) ==
          IF call.use_recents /\ call.clock - pre[p].mtime < recents_age_hours * Hour
            THEN recents_folder
          ELSE IF Len(pre[p].content) > large_file_threshold_bytes
            THEN large_files_folder
          ELSE get_category(p)
    IN /\ Len(Res.actions) = Cardinality(top)
       /\ \A p \in top :
            \E k \in 1..Len(Res.actions) :
              Res.actions[k].name = path_name(p) /\ Res.actions[k].dest = <<folder(p)>>
       /\ ~call.dry_run =>
            \A p \in top : MovedInto(p, Append(directory, folder(p))) \/ Refused(p)

C9_Witness ==
  /\ call.op = "organize_files"
  /\ ~call.dry_run
  /\ call.use_recents
  /\ Res.error_count = 0
  /\ \E p \in Files(pre) :
       /\ call.clock - pre[p].mtime < recents_age_hours * Hour
       /\ Len(pre[p].content) > large_file_threshold_bytes
       /\ WhereIs(fs, pre[p].id) = directory \o <<recents_folder, path_name(p)>>
  /\ \E p \in Files(pre) :
       /\ call.clock - pre[p].mtime >= recents_age_hours * Hour
       /\ Moved(p)

(***************************************************************************)
(* C10: a non-dry-run archive_old_files moves every top-level file whose   *)
(* name does not start with "." and whose age in whole days is greater     *)
(* than archive_age_days to directory/_Archive/<category of its            *)
(* extension>/<name>, and leaves every other top-level file, those exactly *)
(* archive_age_days old included, as it was.                               *)
(***************************************************************************)
C10_ArchiveExactlyOld ==
  (call.op = "archive_old_files" /\ ~call.dry_run /\ result.raised = "") =>
    \A p \in Files(pre) :
      path_parent(p) = directory =>
        IF /\ Head(path_name(p)) # "."
           /\ (call.clock - pre[p].mtime) \div SecondsPerDay > archive_age_days
          THEN \/ MovedInto(p, directory \o <<archive_folder, get_category(p)>>)
               \/ Refused(p)
          ELSE Untouched(p)

C10_Witness ==
  /\ call.op = "archive_old_files"
  /\ ~call.dry_run
  /\ Res.error_count = 0
  /\ \E p \in Files(pre) : Moved(p)
  /\ \E p \in Files(pre) :
       /\ path_parent(p) = directory
       /\ Head(path_name(p)) # "."
       /\ (call.clock - pre[p].mtime) \div SecondsPerDay = archive_age_days
       /\ Untouched(p)

(***************************************************************************)
(* C11: in a run without dry-run and with --archive, a top-level file      *)
(* older than the archive threshold is organized into <category>/ and then *)
(* moved again, so that at the end of the run it is under                  *)
(* _Archive/<category>/.  (Cases left aside: a stage reported errors, the  *)
(* file is hidden or oversized, cleanup deleted it, or it went to the      *)
(* duplicates folder.)                                                     *)
(***************************************************************************)
StageErrors ==
  result.stages.cleanup.result.error_count + result.stages.duplicates.result.error_count
    + result.stages.organize.result.error_count + result.stages.archive.result.error_count

\* the top-level files of `pre` the claim speaks about
OldTopLevel ==
  {p \in Files(pre) :
     /\ path_parent(p) = directory
     /\ ~is_hidden(path_name(p))
     /\ is_old_file(pre, p, call.clock)
     /\ ~is_large_file(pre, p)
     /\ Present(fs, pre[p].id)
     /\ ~is_prefix(Append(directory, duplicates_folder), WhereIs(fs, pre[p].id))}

C11_OldFileEndsInArchive ==
  (call.op = "run" /\ ~call.dry_run /\ call.archive /\ result.exit_code = 0 /\ StageErrors = 0)
    => \A p \in OldTopLevel :
         path_parent(WhereIs(fs, pre[p].id))
           = Append(Append(directory, archive_folder), get_category(p))

(***************************************************************************)
(* C12: in a non-dry-run orchestrator call a failure while processing one  *)
(* file -- a vanished file included -- never aborts the call: the          *)
(* orchestrator does not raise, and organize_files still processes every   *)
(* remaining top-level file that is not hidden (it is moved, or an error   *)
(* names it).                                                              *)
(***************************************************************************)
Remaining == {p \in Files(pre) \ call.gone : path_parent(p) = directory /\ ~is_hidden(path_name(p))}

C12_FileFailureNeverAborts ==
  (call.op \in Orchestrators /\ ~call.dry_run)
    => /\ result.raised = ""
       /\ call.op = "organize_files" => \A p \in Remaining : Moved(p) \/ Refused(p)

(***************************************************************************)
(* C13: every per-file failure during an orchestrator call, a hash read    *)
(* failure during handle_duplicates included, adds exactly one entry to    *)
(* the errors list (naming the file) and one to error_count.               *)
(***************************************************************************)
\* the files the last handle_duplicates could not read
CouldNotRead == {result.warnings[k] : k \in 1..Len(result.warnings)}

C13_EveryFailureIsAnErrorEntry ==
  (call.op \in Orchestrators /\ result.raised = "")
    => /\ Res.error_count = Len(Res.errors)
       /\ call.op = "handle_duplicates"
            => /\ \A p \in CouldNotRead : path_name(p) \in ErrorNames
               /\ Res.error_count >= Cardinality(CouldNotRead)

(***************************************************************************)
(* C14: each core operation called with a path that does not exist or is   *)
(* not a directory fails with the invalid-directory error before any       *)
(* change to the tree; it does not return as if there were nothing to do.  *)
(***************************************************************************)
C14_InvalidDirectoryRaises ==
  (call.op \in Orchestrators /\ ~is_dir(pre, call.dir))
    => /\ result.raised = "ValueError"
       /\ fs = pre

(***************************************************************************)
(* C15 (as stated): when organize_files is run twice in a row without      *)
(* dry-run, the second run reports zero moves and changes nothing.         *)
(***************************************************************************)
C15_SecondRunMovesNothing ==
  calls >= 2 => (Res.success_count = 0 /\ fs = pre)

(***************************************************************************)
(* C15 (as amended): the second run acts on exactly the files the run      *)
(* before it failed to move; after a run without errors it reports no      *)
(* action and no move, and changes nothing.                                *)
(***************************************************************************)
C15_SecondRunRetriesOnlyFailures ==
  (calls >= 2 /\ prev.raised = "" /\ result.raised = "")
    => /\ Len(Res.actions) = prev.result.error_count
       /\ prev.result.error_count = 0
            => (Res.success_count = 0 /\ Res.error_count = 0 /\ fs = pre)

C15_Witness ==
  /\ calls = 2
  /\ prev.result.success_count > 0
  /\ prev.result.error_count = 0
  /\ Res.skip_count > 0
  /\ Res.success_count = 0
  /\ fs = pre

(***************************************************************************)
(* C16: started from the same directory state (and seeing the files in the *)
(* same order), the dry-run call of an orchestrator returns the same       *)
(* actions list, entry by entry, and the same space_recoverable as the     *)
(* non-dry-run call, whatever moves or deletes the real run is refused.    *)
(***************************************************************************)
\* the last call made both ways from `pre`, for every listing order:
\* <<the dry-run result, the real results for every set of refused files>>
Previews ==
  IF call.op = "organize_files"
    THEN {<<organize_files(pre, directory, call.clock, TRUE, call.use_recents, rank, {}).result,
            {organize_files(pre, directory, call.clock, FALSE, call.use_recents, rank, fails).result :
               fails \in FailSets(TopIds(pre))}>> : rank \in Rankings(TopIds(pre))}
  ELSE IF call.op = "archive_old_files"
    THEN {<<archive_old_files(pre, directory, call.clock, TRUE, rank, {}).result,
            {archive_old_files(pre, directory, call.clock, FALSE, rank, fails).result :
               fails \in FailSets(TopIds(pre))}>> : rank \in Rankings(TopIds(pre))}
  ELSE IF call.op = "cleanup_temp_files"
    THEN {<<cleanup_temp_files(pre, directory, call.clock, TRUE, rank, {}).result,
            {cleanup_temp_files(pre, directory, call.clock, FALSE, rank, fails).result :
               fails \in FailSets(TopIds(pre))}>> : rank \in Rankings(TopIds(pre))}
  ELSE IF call.op = "handle_duplicates"
    THEN {<<handle_duplicates(pre, directory, call.clock, TRUE, rank, {}, UnreadableSeen).result,
            {handle_duplicates(pre, directory, call.clock, FALSE, rank, fails, UnreadableSeen).result :
               fails \in FailSets(AllIds(pre))}>> : rank \in Rankings(AllIds(pre))}
  ELSE {}

\* what the claim says of one dry-run result and one real result
SameReport(dry, real) ==
  /\ dry.actions = real.actions
  /\ dry.space_recoverable = real.space_recoverable
  /\ dry.skip_count = real.skip_count
  /\ dry.success_count = 0 /\ dry.error_count = 0
  /\ real.success_count + real.error_count = Len(real.actions)

C16_DryRunReportsTheRealActions ==
  (call.op \in Orchestrators /\ call.dry_run)
    => LET P == Previews
       IN /\ \E pv \in P : pv[1] = Res
          /\ \A pv \in P : \A real \in pv[2] : SameReport(pv[1], real)

C16_Witness ==
  /\ call.op = "handle_duplicates"
  /\ call.dry_run
  /\ Res.space_recoverable > 0
  /\ Len(Res.actions) >= 2
  /\ \E pv \in Previews :
       pv[1] = Res /\ \E real \in pv[2] : real.error_count > 0 /\ real.success_count > 0

(***************************************************************************)
(* C17: a file in the recents folder stays there only while it is newer    *)
(* than recents_age_hours: once it is older, the next organize run (with   *)
(* or without --recents) moves it on to its category folder.               *)
(***************************************************************************)
\* the files that were in the recents folder when the last run started and
\* were no longer recent then
StaleRecents ==
  {p \in Files(pre) : /\ path_parent(p) = Append(directory, recents_folder)
                      /\ ~is_recent_file(pre, p, call.clock)}

C17_StaleRecentsMoveOn ==
  (calls >= 2 /\ call.op = "organize_files" /\ ~call.dry_run /\ Res.error_count = 0)
    => \A p \in StaleRecents :
         /\ Present(fs, pre[p].id)
         /\ path_parent(WhereIs(fs, pre[p].id)) = Append(directory, get_category(p))

(***************************************************************************)
(* C18: run executes the enabled stages in the order cleanup, duplicates,  *)
(* organize, archive (organize always, the others when their flag is set); *)
(* on an invalid directory it returns 1 and leaves the tree alone; on a    *)
(* valid one it returns 0 when the pass completes, per-file errors or not. *)
(***************************************************************************)
\* the tree each stage leaves, given the tree the stage before it left
Cleaned(t, rank, fails) ==
  IF call.cleanup
    THEN cleanup_temp_files(t, directory, call.clock, call.dry_run, rank, fails).fs
    ELSE t

Deduplicated(t, rank, fails) ==
  IF call.duplicates
    THEN handle_duplicates(t, directory, call.clock, call.dry_run, rank, fails, {}).fs
    ELSE t

Organized(t, rank, fails) ==
  organize_files(t, directory, call.clock, call.dry_run, call.use_recents, rank, fails).fs

Archived(t, rank, fails) ==
  IF call.archive
    THEN archive_old_files(t, directory, call.clock, call.dry_run, rank, fails).fs
    ELSE t

InOrder(rank, fails) ==
  Archived(Organized(Deduplicated(Cleaned(pre, rank, fails), rank, fails), rank, fails),
           rank, fails)

C18_RunStagesAndExitCode ==
  call.op = "run"
    => IF is_dir(pre, call.dir)
         THEN /\ result.exit_code = 0
              /\ result.stages.cleanup.ran = call.cleanup
              /\ result.stages.duplicates.ran = call.duplicates
              /\ result.stages.organize.ran
              /\ result.stages.archive.ran = call.archive
              /\ \E rank \in OppositeRankings(AllIds(pre)), fails \in FailSets(AllIds(pre)) :
                   fs = InOrder(rank, fails)
         ELSE /\ result.exit_code = 1
              /\ fs = pre
              /\ \A stage \in DOMAIN result.stages : ~result.stages[stage].ran

\* every stage ran, one of them reported an error, and the run returned 0
C18_Witness ==
  /\ call.op = "run"
  /\ ~call.dry_run
  /\ call.cleanup /\ call.duplicates /\ call.archive
  /\ result.exit_code = 0
  /\ StageErrors > 0
  /\ result.stages.cleanup.result.success_count > 0
  /\ result.stages.organize.result.success_count > 0

(***************************************************************************)
(* C19: organize_files never moves a top-level file whose name starts with *)
(* ".", counts it once in skip_count and adds no action for it;            *)
(* archive_old_files and handle_duplicates never move a hidden file.       *)
(***************************************************************************)
Dotfile(p) == p \in Files(pre) /\ Head(path_name(p)) = "."

TopDotfiles == {p \in Files(pre) : Dotfile(p) /\ path_parent(p) = directory}

ActionNames == {Res.actions[k].name : k \in 1..Len(Res.actions)}

C19_HiddenFilesAreSkipped ==
  /\ (call.op = "organize_files" /\ result.raised = "")
       => /\ \A p \in TopDotfiles : Untouched(p) /\ path_name(p) \notin ActionNames
          /\ Res.skip_count = Cardinality(TopDotfiles)
          /\ Len(Res.actions) = Cardinality(TopIds(pre)) - Cardinality(TopDotfiles)
  /\ (call.op \in {"archive_old_files", "handle_duplicates"} /\ result.raised = "")
       => \A p \in Files(pre) : Dotfile(p) => Untouched(p)

\* a real organize_files that moved a file and skipped a dotfile
C19_Witness ==
  /\ call.op = "organize_files"
  /\ ~call.dry_run
  /\ Res.skip_count > 0
  /\ Res.success_count > 0
  /\ \E p \in TopDotfiles : Untouched(p)

(***************************************************************************)
(* C20: get_category returns one label for every extension string, the     *)
(* empty one included: the category an extension is listed under, however  *)
(* its letters are cased, and default_category "Other" for an extension    *)
(* that is not listed; no extension is listed under two categories.        *)
(***************************************************************************)
Labels == {categories[i].label : i \in 1..Len(categories)}

ListedUnder(e) == {categories[i].label : i \in {k \in 1..Len(categories) : e \in categories[k].extensions}}

C20_ClassificationTotalCaseInsensitive ==
  /\ \A i, j \in 1..Len(categories) :
       i # j => /\ categories[i].extensions \cap categories[j].extensions = {}
                /\ categories[i].label # categories[j].label
  /\ default_category = <<"O","t","h","e","r">>
  /\ default_category \notin Labels
  /\ call.op = "get_category"
       => /\ result.category \in Labels \cup {default_category}
          /\ ListedUnder(call.lower) # {} => ListedUnder(call.lower) = {result.category}
          /\ ListedUnder(call.lower) = {} => result.category = default_category

\* an extension spelled with capitals was classified under its category
C20_Witness ==
  /\ call.op = "get_category"
  /\ call.extension # call.lower
  /\ call.extension \notin ListedExtensions
  /\ result.category \in Labels

(***************************************************************************)
(* C21 (as stated): handle_duplicates returns space_recoverable equal to   *)
(* the sum of the sizes of the non-original members that were relocated    *)
(* (all of them in a dry run); originals and members whose move failed     *)
(* contribute nothing.                                                     *)
(***************************************************************************)
RECURSIVE SumOfSizes(_)
SumOfSizes(S) ==
  IF S = {} THEN 0
  ELSE LET p == CHOOSE x \in S : TRUE
       IN Len(pre[p].content) + SumOfSizes(S \ {p})

\* the members of the groups other than the originals
NonOriginals == Grouped \ {Original(g) : g \in 1..Len(Groups)}

C21_SpaceOfRelocatedMembers ==
  (call.op = "handle_duplicates" /\ result.raised = "")
    => Res.space_recoverable
         = SumOfSizes(IF call.dry_run THEN NonOriginals ELSE {p \in NonOriginals : Moved(p)})

(***************************************************************************)
(* C21 (as amended): handle_duplicates returns space_recoverable equal to  *)
(* the sum of the sizes of all non-original members of the groups, in a    *)
(* dry run and in a real run alike, whether the member was moved or its    *)
(* move failed; the originals contribute nothing.                          *)
(***************************************************************************)
C21_SpaceOfAllNonOriginals ==
  (call.op = "handle_duplicates" /\ result.raised = "")
    => Res.space_recoverable = SumOfSizes(NonOriginals)

\* a real run in which one duplicate was moved and another was refused
C21_Witness ==
  /\ call.op = "handle_duplicates"
  /\ ~call.dry_run
  /\ \E p, q \in NonOriginals : Moved(p) /\ Refused(q)
  /\ Res.space_recoverable = SumOfSizes(NonOriginals)

(***************************************************************************)
(* C22: the threshold predicates are strict: is_old_file holds only when   *)
(* the age in whole days is greater than archive_age_days, is_recent_file  *)
(* only when the age in hours is less than recents_age_hours,              *)
(* is_large_file only when the size is greater than the threshold; a file  *)
(* exactly at a threshold is not old, not recent, not large.               *)
(***************************************************************************)
\* seconds from the modification time of the measured file to the clock
Elapsed == call.clock - pre[MeasuredFile].mtime

C22_ThresholdsAreStrict ==
  call.op = "measure"
    => /\ result.old = (Elapsed >= (archive_age_days + 1) * SecondsPerDay)
       /\ result.recent = (Elapsed < recents_age_hours * Hour)
       /\ result.large = (Len(pre[MeasuredFile].content) > large_file_threshold_bytes)
       /\ Elapsed = archive_age_days * SecondsPerDay => ~result.old
       /\ Elapsed = recents_age_hours * Hour => ~result.recent
       /\ Len(pre[MeasuredFile].content) = large_file_threshold_bytes => ~result.large

\* a file exactly archive_age_days old and exactly of the threshold size
C22_Witness ==
  /\ call.op = "measure"
  /\ Elapsed = archive_age_days * SecondsPerDay
  /\ Len(pre[MeasuredFile].content) = large_file_threshold_bytes
  /\ ~result.old /\ ~result.large /\ ~result.recent

(***************************************************************************)
(* C23 (as stated): get_file_age_days returns now - mtime in whole days    *)
(* truncated toward zero, also for a modification time after now: a file   *)
(* modified one hour in the future has age 0, not -1.                      *)
(***************************************************************************)
C23_AgeTruncatesTowardZero ==
  call.op = "measure"
    => result.age_days = IF Elapsed >= 0 THEN Elapsed \div SecondsPerDay
                         ELSE 0 - ((0 - Elapsed) \div SecondsPerDay)

(***************************************************************************)
(* C23 (as amended): get_file_age_days returns the floor of now - mtime in *)
(* whole days: the greatest n with n days <= now - mtime.  For a           *)
(* modification time after now the age is negative (one hour in the        *)
(* future gives -1); for one at or before now it is the truncation.        *)
(***************************************************************************)
C23_AgeIsFloorOfDays ==
  call.op = "measure"
    => /\ result.age_days * SecondsPerDay <= Elapsed
       /\ Elapsed < (result.age_days + 1) * SecondsPerDay
       /\ Elapsed >= 0 => result.age_days >= 0
       /\ Elapsed < 0 => result.age_days < 0

\* a file modified one hour after the clock has age -1
C23_Witness ==
  /\ call.op = "measure"
  /\ Elapsed = 0 - Hour
  /\ result.age_days = 0 - 1

(***************************************************************************)
(* C24: when the digest of a file cannot be computed during                *)
(* find_duplicates, one warning is printed for that file, the file is in   *)
(* no group, the scan goes on and find_duplicates returns normally: the    *)
(* other files are grouped as if the unreadable file did not exist.        *)
(***************************************************************************)
\* the scanned files whose bytes could not be read during the last call
FailedToRead == {p \in Eligible(pre, call.recursive) : pre[p].id \in call.unreadable}

\* the groups as sets of paths
GroupSets(duplicates) ==
  {{duplicates[g].paths[k] : k \in 1..Len(duplicates[g].paths)} : g \in 1..Len(duplicates)}

\* the scan of the same tree without the files that could not be read
ScanWithout(gone) ==
  find_duplicates(Without(pre, gone), directory, call.recursive,
                  CHOOSE rank \in Rankings(AllIds(Without(pre, gone))) : TRUE, {})

C24_UnreadableFileIsLeftOut ==
  call.op = "find_duplicates"
    => /\ result.raised = ""
       /\ Unread = FailedToRead
       /\ Len(result.warnings) = Cardinality(FailedToRead)
       /\ Grouped \cap FailedToRead = {}
       /\ result.scanned = Cardinality(Eligible(pre, call.recursive))
       /\ GroupSets(Groups) = GroupSets(ScanWithout(FailedToRead).duplicates)

\* a file with the content of a group could not be read, and the group is there
C24_Witness ==
  /\ call.op = "find_duplicates"
  /\ Groups # <<>>
  /\ \E p \in FailedToRead : \E q \in Grouped : pre[p].content = pre[q].content

(***************************************************************************)
(* C25: organize_files, archive_old_files and cleanup_temp_files move or   *)
(* delete only regular files that are direct children of the directory:    *)
(* after such a call every file that was in a subdirectory is the same     *)
(* file at the same path, and every subdirectory is still a directory.     *)
(***************************************************************************)
\* the files of the tree that are below a subdirectory of the root
Nested(t) == {p \in Files(t) : path_parent(p) # directory}

C25_OnlyDirectChildrenChange ==
  call.op \in {"organize_files", "archive_old_files", "cleanup_temp_files"} =>
    /\ \A p \in Nested(pre) : Untouched(p)
    /\ \A d \in DOMAIN pre : pre[d].kind = "dir" => (d \in DOMAIN fs /\ fs[d] = pre[d])

(***************************************************************************)
(* C26: every candidate of an orchestrator call is attempted once and the  *)
(* counters of the result agree: error_count = len(errors); in a dry run   *)
(* success_count = error_count = 0; in a real run success_count +          *)
(* error_count = len(actions); and for a real organize_files               *)
(* success_count + error_count + skip_count is the number of top-level     *)
(* files.                                                                  *)
(***************************************************************************)
\* the files the last call has to move or delete
Candidates ==
  LET top == {f \in iterdir(pre, directory) : is_file(pre, f)}
  IN CASE call.op = "organize_files" -> {f \in top : ~is_hidden(path_name(f))}
       [] call.op = "archive_old_files" ->
            {f \in top : ~is_hidden(path_name(f)) /\ is_old_file(pre, f, call.clock)}
       [] call.op = "cleanup_temp_files" -> {f \in top : is_auto_deletable(pre, f, call.clock)}
       [] call.op = "handle_duplicates" -> NonOriginals
       [] OTHER -> {}

C26_CountersAgree ==
  (call.op \in Orchestrators /\ result.raised = "") =>
    /\ Res.error_count = Len(Res.errors)
    /\ Len(Res.actions) = Cardinality(Candidates)
    /\ call.dry_run => Res.success_count = 0 /\ Res.error_count = 0
    /\ ~call.dry_run =>
         /\ Res.success_count + Res.error_count = Len(Res.actions)
         /\ Res.success_count = Cardinality({p \in Candidates : ~Untouched(p)})
         /\ Res.error_count = Cardinality({p \in Candidates : Untouched(p)})
    /\ (call.op = "organize_files" /\ ~call.dry_run) =>
         Res.success_count + Res.error_count + Res.skip_count
           = Cardinality({f \in iterdir(pre, directory) : is_file(pre, f)})

\* a real organize_files with a moved file, a refused file and a skipped file
C26_Witness ==
  /\ call.op = "organize_files"
  /\ ~call.dry_run
  /\ result.raised = ""
  /\ Res.success_count > 0
  /\ Res.error_count > 0
  /\ Res.skip_count > 0

(***************************************************************************)
(* C27: after a non-dry-run organize_files every file that was a           *)
(* non-hidden regular file at top level is either in the folder chosen     *)
(* for it under the root, or still in place with an entry in errors that   *)
(* names it; no such file is left behind without an error entry.           *)
(***************************************************************************)
\* the folder organize_files chooses for the file at p
DestinationOf(p) ==
  Append(directory, organize_decision(pre, p, call.clock, call.use_recents).category)

C27_NoFileLeftBehindSilently ==
  (call.op = "organize_files" /\ ~call.dry_run) =>
    /\ \A p \in Remaining : MovedInto(p, DestinationOf(p)) \/ Refused(p)
    /\ result.raised = "" =>
         Res.success_count = Cardinality({p \in Remaining : MovedInto(p, DestinationOf(p))})

(***************************************************************************)
(* C28: when a non-dry-run handle_duplicates has finished with             *)
(* error_count = 0, a find_duplicates that follows it on the same root     *)
(* returns no group, and a handle_duplicates that follows it moves         *)
(* nothing: the copies it put into the duplicates folder are not scanned   *)
(* again and one file of every set of identical scanned files is left.     *)
(***************************************************************************)
\* the call before the last one was a handle_duplicates without any error
CleanDeduplication ==
  /\ calls = 2
  /\ "originals" \in DOMAIN prev
  /\ prev.raised = ""
  /\ prev.result.error_count = 0

C28_NoDuplicatesAfterCleanRun ==
  CleanDeduplication =>
    /\ call.op = "find_duplicates" => Groups = <<>>
    /\ call.op = "handle_duplicates" => (fs = pre /\ Res.actions = <<>> /\ Groups = <<>>)

(***************************************************************************)
(* C29: across every sequence of orchestrator calls, a file that lies      *)
(* inside one of the special folders of the root (_Archive, _Duplicates,   *)
(* _Recents, _LargeFiles), at any depth, is never the source of a move or  *)
(* of a deletion: every file that was inside a special folder before a     *)
(* call is the same file at the same path after it, so the set of files    *)
(* inside special folders only grows.                                      *)
(***************************************************************************)
SpecialFolders == {archive_folder, duplicates_folder, recents_folder, large_files_folder}

\* the files of the tree that lie below a special folder of the root
InsideSpecial(t) ==
  {p \in Files(t) : Len(p) > Len(directory) + 1 /\ p[Len(directory) + 1] \in SpecialFolders}

C29_SpecialFoldersOnlyGrow ==
  call.op \in Orchestrators =>
    /\ \A p \in InsideSpecial(pre) : Untouched(p)
    /\ {pre[p].id : p \in InsideSpecial(pre)} \subseteq {fs[p].id : p \in InsideSpecial(fs)}

(***************************************************************************)
(* C30: the outcome of a non-dry-run organize_files does not depend on     *)
(* the order in which the listing returns the top-level files: under every *)
(* other order of the same listing, with the same moves refused, every     *)
(* file ends in the same folder and every folder holds the same multiset   *)
(* of file contents.                                                       *)
(***************************************************************************)
\* the files whose move the operating system refused during the last call
RefusedIds ==
  {pre[p].id : p \in {q \in Files(pre) : \E k \in 1..Len(Res.errors) :
                        /\ Res.errors[k].name = path_name(q)
                        /\ Res.errors[k].err = "PermissionError"
                        /\ path_parent(q) = directory}}

\* how many files of folder d of tree t have the content c
CountIn(t, d, c) == Cardinality({p \in Files(t) : path_parent(p) = d /\ t[p].content = c})

SameOutcome(t, u) ==
  /\ \A p \in Files(pre) :
       /\ Present(t, pre[p].id) = Present(u, pre[p].id)
       /\ Present(t, pre[p].id) =>
            path_parent(WhereIs(t, pre[p].id)) = path_parent(WhereIs(u, pre[p].id))
  /\ \A d \in {path_parent(p) : p \in Files(t) \cup Files(u)} :
       \A c \in {pre[p].content : p \in Files(pre)} : CountIn(t, d, c) = CountIn(u, d, c)

C30_OrderOfListingIsIrrelevant ==
  (call.op = "organize_files" /\ ~call.dry_run /\ result.raised = "") =>
    \A rank \in Rankings(TopIds(pre)) :
      SameOutcome(fs, organize_files(pre, directory, call.clock, FALSE, call.use_recents,
                                     rank, RefusedIds).fs)
====
